---- MODULE Spec2Model ----
(***************************************************************************)
(* A model of libnn: the pointer graph of nn.c (net -> layers -> neurons   *)
(* -> synapses), its integrity checker, and the text and binary codecs of  *)
(* io.c.                                                                   *)
(*                                                                         *)
(* Records live in heaps: a heap is a function from the addresses that are *)
(* allocated to the record stored there; NULL is address 0.  malloc        *)
(* returns the least free address.  A synapse list (struct                 *)
(* ann_synapse_list) is the sequence of the synapse addresses of its       *)
(* nodes, head first; the net counts its live list nodes in list_nodes.    *)
(* Every net has its own heaps: no pointer of the library crosses nets.    *)
(* The fields label, data, rng, min_weight, max_weight and the synapse id  *)
(* (taken from synapse_ctr, which ann_create_neuron leaves uninitialised)  *)
(* are read by no operation modelled here and are left out.                *)
(***************************************************************************)
EXTENDS Integers, Sequences, FiniteSets, TLC

VARIABLES ann, anns, file, res, op

vars == <<ann, anns, file, res, op>>

NULL == 0

(* Bounds of the model: the neurons and the synapses of the nets of one    *)
(* behaviour, the layers of a layer chain, the nets of one file.           *)
MaxNeurons == 2
MaxSynapses == 2
MaxChain == 4
MaxNets == 2

(* The layers a net gets where the claims are about neurons and synapses. *)
BuildLayers == {1, 2}

(* The firing functions a neuron can point to; "NULL" is the null pointer. *)
FireFuncs == {"input", "bias", "sigmoid"}

(* A double is identified with its 8-byte object representation           *)
(* (little-endian IEEE 754); DoubleOf gives it for the numbers 1 and 2.    *)
DoubleOf ==
    (1 :> <<0, 0, 0, 0, 0, 0, 240, 63>>) @@ (2 :> <<0, 0, 0, 0, 0, 0, 0, 64>>)
Weights == {DoubleOf[v] : v \in DOMAIN DoubleOf}

(* A char *: the null pointer, or a pointer to a string of bytes. *)
NullStr == [null |-> TRUE, s |-> <<>>]
Str(s) == [null |-> FALSE, s |-> s]

(* "XOR", the name the test program gives its net. *)
NameXOR == <<88, 79, 82>>

---------------------------------------------------------------------------
(* Heaps *)

(* malloc: the least address that is not allocated. *)
Malloc(heap) ==
    LET free == 1..(Cardinality(DOMAIN heap) + 1) \ DOMAIN heap
    IN CHOOSE a \in free : \A b \in free : a <= b

Free(heap, a) == [x \in DOMAIN heap \ {a} |-> heap[x]]

Put(heap, a, r) == [x \in DOMAIN heap \cup {a} |-> IF x = a THEN r ELSE heap[x]]

RECURSIVE Walk(_, _, _)
(* The addresses reached from a by following next through live records,   *)
(* at most fuel of them.                                                   *)
Walk(heap, a, fuel) ==
    IF a = NULL \/ a \notin DOMAIN heap \/ fuel = 0 THEN <<>>
    ELSE <<a>> \o Walk(heap, heap[a].next, fuel - 1)

(* The layers of a net in chain order, from layer_head. *)
LayerChain(N) == Walk(N.layers, N.layer_head, Cardinality(DOMAIN N.layers))

(* The neurons of a layer in list order, from neuron_head. *)
NeuronList(N, l) ==
    Walk(N.neurons, N.layers[l].neuron_head, Cardinality(DOMAIN N.neurons))

Range(s) == {s[i] : i \in 1..Len(s)}

(* Body of x, with x evaluated once: the result of a call that the code    *)
(* keeps in a local variable.                                              *)
With(x, Body(_)) == CHOOSE out \in {Body(v) : v \in {x}} : TRUE

---------------------------------------------------------------------------
(* nn.c: construction *)

ann_create_net ==
    [name |-> NullStr, description |-> NullStr,
     layer_ctr |-> 0, num_layers |-> 0,
     layer_head |-> NULL, layer_last |-> NULL,
     layers |-> <<>>, neurons |-> <<>>, synapses |-> <<>>,
     list_nodes |-> 0]

ann_set_net_name(N, name) == [N EXCEPT !.name = Str(name)]

ann_set_net_description(N, desc) == [N EXCEPT !.description = Str(desc)]

(* ok: whether malloc succeeds.  Returns the net and the new layer. *)
ann_create_layer(N, prev, next, ok) ==
    IF ~ok THEN [net |-> N, ret |-> NULL]
    ELSE
      LET a == Malloc(N.layers)
          layer == [id |-> 0, neuron_ctr |-> 0, num_neurons |-> 0,
                    prev |-> prev, next |-> next, neuron_head |-> NULL]
          linked == [x \in DOMAIN N.layers |->
                       [N.layers[x] EXCEPT
                          !.next = IF x = prev THEN a ELSE @,
                          !.prev = IF x = next THEN a ELSE @]]
      IN [net |-> [N EXCEPT !.layers = Put(linked, a, layer)], ret |-> a]

ann_insert_after_layer(N, layer, ok) ==
    ann_create_layer(N, layer, N.layers[layer].next, ok)

ann_prepend_layer(N, ok) ==
    LET c == ann_create_layer(N, NULL, N.layer_head, ok)
    IN [net |-> [c.net EXCEPT !.layer_head = c.ret], ret |-> c.ret]

ann_add_layer(N, ok) ==
    LET c == ann_create_layer(N, N.layer_last, NULL, ok)
    IN IF c.ret = NULL THEN [net |-> N, ret |-> NULL]
       ELSE [net |-> [c.net EXCEPT
                        !.layers[c.ret].id = N.layer_ctr,
                        !.layer_ctr = N.layer_ctr + 1,
                        !.num_layers = N.num_layers + 1,
                        !.layer_head = IF N.layer_last = NULL THEN c.ret ELSE @,
                        !.layer_last = c.ret],
             ret |-> c.ret]

ann_create_neuron ==
    [id |-> 0, layer |-> NULL, next |-> NULL, fire_func |-> "NULL",
     inputs |-> <<>>, outputs |-> <<>>, value |-> [lo |-> 0, hi |-> 0]]

ann_add_neuron(N, layer, fire_func, ok) ==
    IF ~ok THEN [net |-> N, ret |-> NULL]
    ELSE
      LET a == Malloc(N.neurons)
          neuron == [ann_create_neuron EXCEPT
                       !.id = N.layers[layer].neuron_ctr,
                       !.fire_func = fire_func,
                       !.layer = layer,
                       !.next = N.layers[layer].neuron_head]
      IN [net |-> [N EXCEPT
                     !.layers[layer].num_neurons = @ + 1,
                     !.layers[layer].neuron_ctr = @ + 1,
                     !.layers[layer].neuron_head = a,
                     !.neurons = Put(@, a, neuron)],
          ret |-> a]

RECURSIVE ann_add_neurons_from(_, _, _, _, _, _, _)
(* The loop of ann_add_neurons from iteration i, neuron being the result   *)
(* of the last ann_add_neuron.  The allocation of the fail_at-th neuron    *)
(* (counted from 1) fails; fail_at = 0: none does.  On failure the handler *)
(* calls                                                                   *)
(* ann_destroy_neuron(neuron) i times with neuron == NULL: for i > 0 that  *)
(* dereferences the null pointer.                                          *)
ann_add_neurons_from(N, layer, num_neurons, fire_func, fail_at, i, neuron) ==
    IF i >= num_neurons THEN [net |-> N, ret |-> neuron, crash |-> FALSE]
    ELSE
      LET r == ann_add_neuron(N, layer, fire_func, fail_at # i + 1)
      IN IF r.ret = NULL
         THEN [net |-> r.net, ret |-> NULL, crash |-> i > 0]
         ELSE ann_add_neurons_from(r.net, layer, num_neurons, fire_func,
                                   fail_at, i + 1, r.ret)

ann_add_neurons(N, layer, num_neurons, fire_func, fail_at) ==
    ann_add_neurons_from(N, layer, num_neurons, fire_func, fail_at, 0, NULL)

---------------------------------------------------------------------------
(* nn.c: synapses *)

(* ann_add_synapse whose handler of the third allocation frees the synapse *)
(* and forgets free(head_from).                                            *)
ann_add_synapse_leaks_node(N, from, to, weight, fail) ==
    IF fail = 1 THEN [net |-> N, ret |-> NULL]
    ELSE
      LET a == Malloc(N.synapses)
          synapse == [from |-> from, to |-> to, weight |-> weight]
      IN IF fail = 2 THEN [net |-> N, ret |-> NULL]
         ELSE IF fail = 3
         THEN [net |-> [N EXCEPT !.list_nodes = @ + 1], ret |-> NULL]
         ELSE
           LET N3 == [N EXCEPT !.synapses = Put(@, a, synapse),
                               !.list_nodes = @ + 2]
               N4 == [N3 EXCEPT !.neurons[from].outputs = <<a>> \o @]
           IN [net |-> [N4 EXCEPT !.neurons[to].inputs = <<a>> \o @],
               ret |-> a]

(* fail = 0: the three allocations succeed; fail = k: the k-th one (the    *)
(* synapse, the output list node, the input list node) returns NULL.       *)
ann_add_synapse(N, from, to, weight, fail) ==
    IF fail = 1 THEN [net |-> N, ret |-> NULL]
    ELSE
      LET a == Malloc(N.synapses)
          synapse == [from |-> from, to |-> to, weight |-> weight]
          N1 == [N EXCEPT !.synapses = Put(@, a, synapse)]
      IN IF fail = 2
         THEN [net |-> [N1 EXCEPT !.synapses = Free(@, a)], ret |-> NULL]
         ELSE
           LET N2 == [N1 EXCEPT !.list_nodes = @ + 1]
           IN IF fail = 3
              THEN [net |-> [N2 EXCEPT !.list_nodes = @ - 1,
                                       !.synapses = Free(@, a)],
                    ret |-> NULL]
              ELSE
                LET N3 == [N2 EXCEPT !.list_nodes = @ + 1]
                    N4 == [N3 EXCEPT !.neurons[from].outputs = <<a>> \o @]
                IN [net |-> [N4 EXCEPT !.neurons[to].inputs = <<a>> \o @],
                    ret |-> a]

IndexOf(list, x) == CHOOSE i \in 1..Len(list) : list[i] = x /\ \A j \in 1..(i - 1) : list[j] # x

(* Unlinks and frees the first node that holds synapse.  The loop has no   *)
(* end-of-list test: when no node holds the synapse it runs off the list   *)
(* (found = FALSE).                                                        *)
ann_remove_synapse_from_neuron(synapse_list, synapse) ==
    IF synapse \in Range(synapse_list)
    THEN LET i == IndexOf(synapse_list, synapse)
         IN [list |-> SubSeq(synapse_list, 1, i - 1)
                        \o SubSeq(synapse_list, i + 1, Len(synapse_list)),
             found |-> TRUE]
    ELSE [list |-> synapse_list, found |-> FALSE]

(* ann_destroy_synapse without the removal from the target's input list. *)
ann_destroy_synapse_keeps_input(N, synapse) ==
    LET s == N.synapses[synapse]
        o == ann_remove_synapse_from_neuron(N.neurons[s.from].outputs, synapse)
        N1 == [N EXCEPT !.neurons[s.from].outputs = o.list,
                        !.list_nodes = @ - 1]
    IN IF ~o.found THEN [net |-> N, crash |-> TRUE]
       ELSE [net |-> [N1 EXCEPT !.synapses = Free(@, synapse)],
             crash |-> FALSE]

ann_destroy_synapse(N, synapse) ==
    LET s == N.synapses[synapse]
        o == ann_remove_synapse_from_neuron(N.neurons[s.from].outputs, synapse)
        N1 == [N EXCEPT !.neurons[s.from].outputs = o.list,
                        !.list_nodes = @ - 1]
        i == ann_remove_synapse_from_neuron(N1.neurons[s.to].inputs, synapse)
        N2 == [N1 EXCEPT !.neurons[s.to].inputs = i.list,
                         !.list_nodes = @ - 1]
    IN IF ~o.found THEN [net |-> N, crash |-> TRUE]
       ELSE IF ~i.found THEN [net |-> N1, crash |-> TRUE]
       ELSE [net |-> [N2 EXCEPT !.synapses = Free(@, synapse)],
             crash |-> FALSE]

(* The (from, to) pairs of ann_connect_layers in the order of its loops. *)
LayerPairs(N, from, to) ==
    LET f == NeuronList(N, from)
        t == NeuronList(N, to)
    IN [k \in 1..(Len(f) * Len(t)) |->
          <<f[((k - 1) \div Len(t)) + 1], t[((k - 1) % Len(t)) + 1]>>]

RECURSIVE ann_connect_pairs(_, _, _, _, _)
ann_connect_pairs(N, pairs, weights, fail_at, k) ==
    IF k > Len(pairs) THEN [net |-> N, ret |-> TRUE]
    ELSE
      LET r == ann_add_synapse(N, pairs[k][1], pairs[k][2], weights[k],
                               IF fail_at = k THEN 1 ELSE 0)
      IN IF r.ret = NULL THEN [net |-> r.net, ret |-> FALSE]
         ELSE ann_connect_pairs(r.net, pairs, weights, fail_at, k + 1)

(* weights: the values ann_get_weight draws, one per pair; fail_at: the    *)
(* pair whose ann_add_synapse fails, 0 for none.                           *)
ann_connect_layers(N, from, to, weights, fail_at) ==
    ann_connect_pairs(N, LayerPairs(N, from, to), weights, fail_at, 1)

---------------------------------------------------------------------------
(* nn.c: traversal and integrity check *)

RECURSIVE Flatten(_)
Flatten(ss) == IF ss = <<>> THEN <<>> ELSE Head(ss) \o Flatten(Tail(ss))

(* The visitor calls of ann_traverse_neuron, in order, when every visitor  *)
(* returns true.  A call is <<visitor, address>>.                          *)
ann_traverse_neuron(N, neuron, in_synapse_func, out_synapse_func) ==
    (IF in_synapse_func
     THEN [k \in 1..Len(N.neurons[neuron].inputs) |->
             <<"in_synapse_func", N.neurons[neuron].inputs[k]>>]
     ELSE <<>>)
    \o
    (IF out_synapse_func
     THEN [k \in 1..Len(N.neurons[neuron].outputs) |->
             <<"out_synapse_func", N.neurons[neuron].outputs[k]>>]
     ELSE <<>>)

ann_traverse_layer(N, layer, neuron_func, in_synapse_func, out_synapse_func) ==
    IF neuron_func \/ in_synapse_func \/ out_synapse_func
    THEN LET ns == NeuronList(N, layer)
         IN Flatten([k \in 1..Len(ns) |->
                (IF neuron_func THEN << <<"neuron_func", ns[k]>> >> ELSE <<>>)
                \o ann_traverse_neuron(N, ns[k], in_synapse_func,
                                       out_synapse_func)])
    ELSE <<>>

(* The arguments say which of the four visitors are given (not NULL). *)
ann_traverse_net(N, layer_func, neuron_func, in_synapse_func, out_synapse_func) ==
    IF layer_func \/ neuron_func \/ in_synapse_func \/ out_synapse_func
    THEN LET ls == LayerChain(N)
         IN Flatten([k \in 1..Len(ls) |->
                (IF layer_func THEN << <<"layer_func", ls[k]>> >> ELSE <<>>)
                \o ann_traverse_layer(N, ls[k], neuron_func, in_synapse_func,
                                      out_synapse_func)])
    ELSE <<>>

(* ann_traverse_neuron that walks the output list before the input list. *)
ann_traverse_net_until_outputs_first(N, layer_func, neuron_func, in_synapse_func, out_synapse_func, fails) ==
    LET ls == LayerChain(N)
        calls == Flatten([k \in 1..Len(ls) |->
                   (IF layer_func THEN << <<"layer_func", ls[k]>> >> ELSE <<>>)
                   \o Flatten([j \in 1..Len(NeuronList(N, ls[k])) |->
                         (IF neuron_func
                          THEN << <<"neuron_func", NeuronList(N, ls[k])[j]>> >>
                          ELSE <<>>)
                         \o ann_traverse_neuron(N, NeuronList(N, ls[k])[j],
                                                FALSE, out_synapse_func)
                         \o ann_traverse_neuron(N, NeuronList(N, ls[k])[j],
                                                in_synapse_func, FALSE)])])
        stops == {k \in 1..Len(calls) : calls[k] \in fails}
    IN IF stops = {} THEN [calls |-> calls, ret |-> TRUE]
       ELSE [calls |-> SubSeq(calls, 1, CHOOSE k \in stops :
                                            \A j \in stops : k <= j),
             ret |-> FALSE]

(* ann_traverse_net with visitors that return false on the calls fails and *)
(* true on every other call: the calls made, in order, and the result.     *)
(* Each of the three functions returns false as soon as a call it makes    *)
(* returns false.                                                          *)
ann_traverse_net_until(N, layer_func, neuron_func, in_synapse_func, out_synapse_func, fails) ==
    LET calls == ann_traverse_net(N, layer_func, neuron_func, in_synapse_func,
                                  out_synapse_func)
        stops == {k \in 1..Len(calls) : calls[k] \in fails}
    IN IF stops = {} THEN [calls |-> calls, ret |-> TRUE]
       ELSE [calls |-> SubSeq(calls, 1, CHOOSE k \in stops :
                                            \A j \in stops : k <= j),
             ret |-> FALSE]

(* The results a call of ann_check_synapse can have.  Each scan ends with  *)
(* l == NULL when the synapse is not in the list, and the test after the   *)
(* loop then reads l->synapse through the null pointer: the call crashes,  *)
(* or the read is compiled away and the scan counts as passed.  No path    *)
(* returns false for a synapse that is not NULL.                           *)
ann_check_synapse(N, synapse) ==
    IF synapse = NULL THEN {"false"}
    ELSE
      LET s == N.synapses[synapse]
          in_inputs == synapse \in Range(N.neurons[s.to].inputs)
          in_outputs == synapse \in Range(N.neurons[s.from].outputs)
      IN IF in_inputs /\ in_outputs THEN {"true"} ELSE {"crash", "true"}

ann_check_layer(N, layer) ==
    IF N.layers[layer].prev = NULL
       \/ N.layers[N.layers[layer].prev].next = layer
    THEN {"true"} ELSE {"false"}

RECURSIVE FirstFailure(_, _, _)
(* The results of a walk over calls: the walk ends at the first visitor    *)
(* that does not return true.                                              *)
FirstFailure(N, calls, k) ==
    IF k > Len(calls) THEN {"true"}
    ELSE
      LET r == IF calls[k][1] = "layer_func"
               THEN ann_check_layer(N, calls[k][2])
               ELSE ann_check_synapse(N, calls[k][2])
      IN (r \ {"true"})
         \cup (IF "true" \in r THEN FirstFailure(N, calls, k + 1) ELSE {})

(* The results ann_check_net can have. *)
ann_check_net(N) ==
    IF N.layer_head # NULL /\ N.layers[N.layer_head].prev # NULL
    THEN {"false"}
    ELSE IF N.layer_last # NULL /\ N.layers[N.layer_last].next # NULL
    THEN {"false"}
    ELSE FirstFailure(N, ann_traverse_net(N, TRUE, FALSE, FALSE, TRUE), 1)

---------------------------------------------------------------------------
(* nn.c: evaluation.  The double a neuron holds as its value is kept as an *)
(* interval [lo, hi] of multiples of 1/Unit that contains it.  Every       *)
(* operation on doubles rounds its result, by far less than 1/Unit for the *)
(* magnitudes met here: the interval of a result is the exact one made one *)
(* unit wider on each side.                                                *)
Unit == 10000

(* No upper bound that fits. *)
Huge == 2000000000

Exact(n) == [lo |-> n, hi |-> n]
Floor(a, b) == a \div b
Ceil(a, b) == -((-a) \div b)
Min(a, b) == IF a < b THEN a ELSE b
Max(a, b) == IF a > b THEN a ELSE b

(* The doubles of the literals of the test program, by their hundredths. *)
LiteralOf ==
    (-282 :> <<143, 194, 245, 40, 92, 143, 6, 192>>)
      @@ (-274 :> <<236, 81, 184, 30, 133, 235, 5, 192>>)
      @@ (-286 :> <<225, 122, 20, 174, 71, 225, 6, 192>>)
      @@ (483 :> <<82, 184, 30, 133, 235, 81, 19, 64>>)
      @@ (-463 :> <<133, 235, 81, 184, 30, 133, 18, 192>>)
      @@ (-483 :> <<82, 184, 30, 133, 235, 81, 19, 192>>)
      @@ (460 :> <<102, 102, 102, 102, 102, 102, 18, 64>>)
      @@ (573 :> <<236, 81, 184, 30, 133, 235, 22, 64>>)
      @@ (583 :> <<82, 184, 30, 133, 235, 81, 23, 64>>)
      @@ (0 :> <<0, 0, 0, 0, 0, 0, 0, 0>>)

(* The number a double is, in units. *)
number(double) ==
    IF \E v \in DOMAIN DoubleOf : DoubleOf[v] = double
    THEN Unit * (CHOOSE v \in DOMAIN DoubleOf : DoubleOf[v] = double)
    ELSE (Unit \div 100)
           * (CHOOSE v \in DOMAIN LiteralOf : LiteralOf[v] = double)

(* weight * value and total + term, on intervals. *)
Times(weight, value) ==
    [lo |-> Floor(Min(weight * value.lo, weight * value.hi), Unit) - 1,
     hi |-> Ceil(Max(weight * value.lo, weight * value.hi), Unit) + 1]
Plus(total, term) ==
    [lo |-> total.lo + term.lo - 1, hi |-> total.hi + term.hi + 1]

RECURSIVE exp_series(_, _, _)
(* exp of r/Unit for 0 <= r < Unit: the partial sums of its power series   *)
(* from the k-th term on, t bounding the term before it; what is left      *)
(* after the tenth term is less than that term.                            *)
exp_series(r, k, t) ==
    IF k > 10 THEN [lo |-> 0, hi |-> t.hi]
    ELSE LET u == [lo |-> Floor(t.lo * r, Unit * k),
                   hi |-> Ceil(t.hi * r, Unit * k)]
             rest == exp_series(r, k + 1, u)
         IN [lo |-> u.lo + rest.lo, hi |-> u.hi + rest.hi]

RECURSIVE exp_scaled(_, _)
(* v / e^n: 1/e lies between 0.3678 and 0.3679. *)
exp_scaled(v, n) ==
    IF n = 0 THEN v
    ELSE exp_scaled([lo |-> Floor(v.lo * 3678, 10000),
                     hi |-> Ceil(v.hi * 3679, 10000)], n - 1)

(* exp of -y/Unit for y >= 0. *)
exp_neg(y) ==
    LET s == exp_series(y % Unit, 1, Exact(Unit))
    IN exp_scaled([lo |-> Floor(Unit * Unit, Unit + s.hi),
                   hi |-> Ceil(Unit * Unit, Unit + s.lo)], y \div Unit)

(* exp of x/Unit from below and from above. *)
exp_lo(x) ==
    IF x <= 0 THEN exp_neg(-x).lo - 1
    ELSE Floor(Unit * Unit, exp_neg(x).hi) - 1
exp_hi(x) ==
    IF x <= 0 THEN exp_neg(-x).hi + 1
    ELSE IF exp_neg(x).lo = 0 THEN Huge
    ELSE Min(Huge, Ceil(Unit * Unit, exp_neg(x).lo) + 1)

(* 1.0 / (1.0 + exp(x)) *)
ann_sigmoid_of_minus(x) ==
    [lo |-> IF exp_hi(x.hi) = Huge THEN 0
            ELSE Floor(Unit * Unit, Unit + exp_hi(x.hi)) - 1,
     hi |-> Ceil(Unit * Unit, Unit + Max(exp_lo(x.lo), 0)) + 1]

(* 1.0 / (1.0 + exp(-x)) *)
ann_sigmoid(x) ==
    [lo |-> IF exp_hi(-x.lo) = Huge THEN 0
            ELSE Floor(Unit * Unit, Unit + exp_hi(-x.lo)) - 1,
     hi |-> Ceil(Unit * Unit, Unit + Max(exp_lo(-x.hi), 0)) + 1]

RECURSIVE ann_neuron_fire_sigmoid_from(_, _, _, _)
(* The loop of ann_neuron_fire_sigmoid from the k-th input synapse on. *)
ann_neuron_fire_sigmoid_from(N, inputs, k, total) ==
    IF k > Len(inputs) THEN total
    ELSE ann_neuron_fire_sigmoid_from(N, inputs, k + 1,
             Plus(total, Times(number(N.synapses[inputs[k]].weight),
                               N.neurons[N.synapses[inputs[k]].from].value)))

ann_neuron_fire_sigmoid(N, neuron) ==
    [N EXCEPT !.neurons[neuron].value =
        ann_sigmoid(ann_neuron_fire_sigmoid_from(N, N.neurons[neuron].inputs,
                                                 1, Exact(0)))]

ann_neuron_fire_bias(N, neuron) ==
    [N EXCEPT !.neurons[neuron].value = Exact(Unit)]

ann_neuron_fire_input(N, neuron) == N

(* neuron->fire_func(neuron, NULL) for a fire_func that is not null. *)
call_fire_func(N, neuron) ==
    IF N.neurons[neuron].fire_func = "sigmoid"
    THEN ann_neuron_fire_sigmoid(N, neuron)
    ELSE IF N.neurons[neuron].fire_func = "bias"
    THEN ann_neuron_fire_bias(N, neuron)
    ELSE ann_neuron_fire_input(N, neuron)

RECURSIVE ann_process_from(_, _, _, _)
(* The second loop of ann_process_pattern over the neurons ns of the       *)
(* layers after the first, from the k-th one on; fired: the neurons whose  *)
(* firing function was called.  The call through a null fire_func ends the *)
(* process.                                                                *)
ann_process_from(N, ns, k, fired) ==
    IF k > Len(ns) THEN [net |-> N, fired |-> fired, crash |-> FALSE]
    ELSE IF N.neurons[ns[k]].fire_func = "NULL"
    THEN [net |-> N, fired |-> fired, crash |-> TRUE]
    ELSE ann_process_from(call_fire_func(N, ns[k]), ns, k + 1,
                          Append(fired, ns[k]))

(* ann_process_pattern that fires the neurons of the first layer as well. *)
ann_process_pattern_fires_first(N, inputs) ==
    IF N.layer_head = NULL
    THEN [net |-> N, ret |-> NULL, fired |-> <<>>, crash |-> TRUE]
    ELSE
      LET first == NeuronList(N, N.layer_head)
          set == 1..Min(Len(inputs), Len(first))
          N1 == [N EXCEPT !.neurons =
                   [n \in DOMAIN @ |->
                      IF \E i \in set : first[i] = n
                      THEN [@[n] EXCEPT !.value =
                              Exact(number(inputs[IndexOf(first, n)]))]
                      ELSE @[n]]]
          later == LayerChain(N)
          r == ann_process_from(N1,
                   Flatten([k \in 1..Len(later) |-> NeuronList(N, later[k])]),
                   1, <<>>)
      IN [net |-> r.net,
          ret |-> later[Len(later)],
          fired |-> r.fired, crash |-> r.crash]

(* inputs: the num_inputs doubles of the array.  ann->layer_head is        *)
(* dereferenced; last is the layer the second loop was at last, and NULL   *)
(* when it was at none.                                                    *)
ann_process_pattern(N, inputs) ==
    IF N.layer_head = NULL
    THEN [net |-> N, ret |-> NULL, fired |-> <<>>, crash |-> TRUE]
    ELSE
      LET first == NeuronList(N, N.layer_head)
          set == 1..Min(Len(inputs), Len(first))
          N1 == [N EXCEPT !.neurons =
                   [n \in DOMAIN @ |->
                      IF \E i \in set : first[i] = n
                      THEN [@[n] EXCEPT !.value =
                              Exact(number(inputs[IndexOf(first, n)]))]
                      ELSE @[n]]]
          later == Tail(LayerChain(N))
          r == ann_process_from(N1,
                   Flatten([k \in 1..Len(later) |-> NeuronList(N, later[k])]),
                   1, <<>>)
      IN [net |-> r.net,
          ret |-> IF later = <<>> THEN NULL ELSE later[Len(later)],
          fired |-> r.fired, crash |-> r.crash]

---------------------------------------------------------------------------
(* nn.c: destruction *)

(* What ann_destroy_net leaves allocated of the records of N: it frees the *)
(* layers of the chain from layer_head, their neurons, the synapses and    *)
(* the nodes of the input lists of these neurons, and the nodes of their   *)
(* output lists.                                                           *)
ann_destroy_net(N) ==
    LET ls == Range(LayerChain(N))
        ns == UNION {Range(NeuronList(N, l)) : l \in ls}
        ss == UNION {Range(N.neurons[n].inputs) : n \in ns}
        nodes == UNION {{<<n, "inputs", k>> :
                            k \in 1..Len(N.neurons[n].inputs)}
                        \cup {<<n, "outputs", k>> :
                            k \in 1..Len(N.neurons[n].outputs)} : n \in ns}
    IN [N EXCEPT !.layers = [x \in DOMAIN N.layers \ ls |-> N.layers[x]],
                 !.neurons = [x \in DOMAIN N.neurons \ ns |-> N.neurons[x]],
                 !.synapses = [x \in DOMAIN N.synapses \ ss |-> N.synapses[x]],
                 !.list_nodes = @ - Cardinality(nodes)]

(* The records of N that are allocated. *)
Allocated(N) ==
    Cardinality(DOMAIN N.layers) + Cardinality(DOMAIN N.neurons)
        + Cardinality(DOMAIN N.synapses) + N.list_nodes

---------------------------------------------------------------------------
(* nn.c: destruction, free by free.  D.net: the records that are live;     *)
(* D.frees: the records freed so far, in the order of the calls of free;   *)
(* D.uaf: the code has read, written or freed a record that was freed      *)
(* before, after which nothing is known of what it does.  A list node is   *)
(* named by its neuron, its list and its place in the list.                *)
Destroying(N) == [net |-> N, frees |-> <<>>, uaf |-> FALSE]

free(D, heap, a) ==
    IF a \notin DOMAIN D.net[heap] THEN [D EXCEPT !.uaf = TRUE]
    ELSE [D EXCEPT !.net[heap] = Free(@, a),
                   !.frees = Append(@, <<heap, a, "", 0>>)]

RECURSIVE ann_destroy_synapse_list(_, _, _, _, _)
(* The loop over the nodes of list side of neuron, from the k-th one on. *)
ann_destroy_synapse_list(D, neuron, side, free_synapse, k) ==
    IF D.uaf \/ k > Len(D.net.neurons[neuron][side]) THEN D
    ELSE
      With(IF free_synapse
           THEN free(D, "synapses", D.net.neurons[neuron][side][k])
           ELSE D, LAMBDA D1 :
        IF D1.uaf THEN D1
        ELSE ann_destroy_synapse_list(
                 [D1 EXCEPT !.frees = Append(@, <<"node", neuron, side, k>>),
                            !.net.list_nodes = @ - 1],
                 neuron, side, free_synapse, k + 1))

(* ann_destroy_neuron that frees the synapses of the output list as well. *)
ann_destroy_neuron_frees_outputs(D, neuron) ==
    IF D.uaf THEN D
    ELSE IF neuron \notin DOMAIN D.net.neurons THEN [D EXCEPT !.uaf = TRUE]
    ELSE
      With(ann_destroy_synapse_list(D, neuron, "inputs", TRUE, 1), LAMBDA D1 :
      With(ann_destroy_synapse_list(D1, neuron, "outputs", TRUE, 1), LAMBDA D2 :
        IF D2.uaf THEN D2 ELSE free(D2, "neurons", neuron)))

ann_destroy_neuron(D, neuron) ==
    IF D.uaf THEN D
    ELSE IF neuron \notin DOMAIN D.net.neurons THEN [D EXCEPT !.uaf = TRUE]
    ELSE
      With(ann_destroy_synapse_list(D, neuron, "inputs", TRUE, 1), LAMBDA D1 :
      With(ann_destroy_synapse_list(D1, neuron, "outputs", FALSE, 1), LAMBDA D2 :
        IF D2.uaf THEN D2 ELSE free(D2, "neurons", neuron)))

RECURSIVE ann_destroy_neuron_list(_, _)
(* it->next is read before it is destroyed. *)
ann_destroy_neuron_list(D, it) ==
    IF D.uaf \/ it = NULL THEN D
    ELSE IF it \notin DOMAIN D.net.neurons THEN [D EXCEPT !.uaf = TRUE]
    ELSE With(D.net.neurons[it].next, LAMBDA next :
           ann_destroy_neuron_list(ann_destroy_neuron(D, it), next))

(* ann_destroy_layer has the layer only: the net it is of is not written. *)
ann_destroy_layer(D, layer) ==
    IF D.uaf THEN D
    ELSE IF layer \notin DOMAIN D.net.layers THEN [D EXCEPT !.uaf = TRUE]
    ELSE
      LET l == D.net.layers[layer]
      IN IF \/ l.next # NULL /\ l.next \notin DOMAIN D.net.layers
            \/ l.prev # NULL /\ l.prev \notin DOMAIN D.net.layers
         THEN [D EXCEPT !.uaf = TRUE]
         ELSE
           With([D EXCEPT !.net.layers =
                   [x \in DOMAIN @ |->
                      [@[x] EXCEPT
                         !.prev = IF x = l.next THEN l.prev ELSE @,
                         !.next = IF x = l.prev THEN l.next ELSE @]]],
                LAMBDA D1 :
             With(ann_destroy_neuron_list(D1, D1.net.layers[layer].neuron_head),
                  LAMBDA D2 :
               IF D2.uaf THEN D2 ELSE free(D2, "layers", layer)))

RECURSIVE ann_destroy_layers_from(_, _)
(* The loop of ann_destroy_net: it->next is read before it is destroyed. *)
ann_destroy_layers_from(D, it) ==
    IF D.uaf \/ it = NULL THEN D
    ELSE IF it \notin DOMAIN D.net.layers THEN [D EXCEPT !.uaf = TRUE]
    ELSE With(D.net.layers[it].next, LAMBDA next :
           ann_destroy_layers_from(ann_destroy_layer(D, it), next))

(* ann_destroy_net as the calls of free it makes.  The name, the           *)
(* description and the struct ann_net itself are freed as well; they are   *)
(* no records of the heaps.                                                *)
ann_destroy_net_frees(N) == ann_destroy_layers_from(Destroying(N), N.layer_head)

---------------------------------------------------------------------------
(* nn.c: the feed forward net *)

(* ann_add_neurons returns NULL when it is asked for no neuron. *)
ann_add_feed_forward_layer(N, fire_func, num_neurons) ==
    With(ann_add_layer(N, TRUE), LAMBDA l :
    With(ann_add_neurons(l.net, l.ret, num_neurons, fire_func, 0), LAMBDA n :
      [net |-> n.net, ret |-> IF n.ret = NULL THEN NULL ELSE l.ret]))

(* Every synapse of the layers gets the weight ann_get_weight drew. *)
ConnectAll(N, from, to, weight) ==
    ann_connect_layers(N, from, to,
        [k \in 1..Len(LayerPairs(N, from, to)) |-> weight], 0)

(* The connections of layer curr that connect curr->prev only. *)
ann_connect_feed_forward_prev_only(N, curr, bias, i, weight) ==
    ConnectAll(N, N.layers[curr].prev, curr, weight)

(* The connections ann_create_feed_forward_net makes for the layer curr of *)
(* its i-th iteration.                                                     *)
ann_connect_feed_forward(N, curr, bias, i, weight) ==
    With(ConnectAll(N, N.layers[curr].prev, curr, weight), LAMBDA c :
      IF ~c.ret THEN c
      ELSE IF i > 1 THEN ConnectAll(c.net, bias, curr, weight)
      ELSE ConnectAll(c.net, c.net.layer_head, curr, weight))

RECURSIVE ann_create_feed_forward_from(_, _, _, _, _)
(* The loop of ann_create_feed_forward_net from iteration i on; layers[i]  *)
(* of the source is layers[i + 1] here.                                    *)
ann_create_feed_forward_from(N, layers, bias, i, weight) ==
    IF i >= Len(layers) THEN [net |-> N, ret |-> TRUE]
    ELSE
      With(ann_add_feed_forward_layer(N, "sigmoid", layers[i + 1]), LAMBDA curr :
        IF curr.ret = NULL
        THEN [net |-> ann_destroy_net(curr.net), ret |-> FALSE]
        ELSE
          With(ann_connect_feed_forward(curr.net, curr.ret, bias, i, weight),
               LAMBDA c :
            IF ~c.ret THEN [net |-> ann_destroy_net(c.net), ret |-> FALSE]
            ELSE ann_create_feed_forward_from(c.net, layers, bias, i + 1,
                                              weight)))

(* layers: the num_layers sizes; ret: whether the net is returned (FALSE:  *)
(* NULL, the net destroyed).                                               *)
ann_create_feed_forward_net(layers, weight) ==
    With(ann_add_feed_forward_layer(ann_create_net, "input", layers[1]),
         LAMBDA curr :
      IF curr.ret = NULL
      THEN [net |-> ann_destroy_net(curr.net), ret |-> FALSE]
      ELSE
        With(ann_add_feed_forward_layer(curr.net, "bias", 1), LAMBDA bias :
          IF bias.ret = NULL
          THEN [net |-> ann_destroy_net(bias.net), ret |-> FALSE]
          ELSE ann_create_feed_forward_from(bias.net, layers, bias.ret, 1,
                                            weight)))

(* NULL when there is no such layer or no such neuron. *)
ann_get_neuron_by_pos(N, layer_pos, neuron_pos) ==
    LET ls == LayerChain(N)
    IN IF layer_pos + 1 > Len(ls) THEN NULL
       ELSE IF neuron_pos + 1 > Len(NeuronList(N, ls[layer_pos + 1])) THEN NULL
       ELSE NeuronList(N, ls[layer_pos + 1])[neuron_pos + 1]

(* The synapse of the first node of from's output list that leads to to;   *)
(* the asserts end the process when there is none (crash), as does a null  *)
(* from.                                                                   *)
ann_get_synapse(N, from, to) ==
    IF from = NULL THEN [ret |-> NULL, crash |-> TRUE]
    ELSE LET outs == N.neurons[from].outputs
             hits == {k \in 1..Len(outs) : N.synapses[outs[k]].to = to}
         IN IF hits = {} THEN [ret |-> NULL, crash |-> TRUE]
            ELSE [ret |-> outs[CHOOSE k \in hits : \A j \in hits : k <= j],
                  crash |-> FALSE]

ann_set_synapse_weight(N, synapse, weight) ==
    [N EXCEPT !.synapses[synapse].weight = weight]

---------------------------------------------------------------------------
(* io.c: the text format.  The file is the cJSON document that ann_save    *)
(* prints and ann_load parses: an array of objects, an object being a      *)
(* function from its keys to its items.  An id is an item's valueint, a    *)
(* weight its valuedouble, a name its valuestring.                         *)

(* The number cJSON holds for a weight. *)
valuedouble(weight) == CHOOSE v \in DOMAIN DoubleOf : DoubleOf[v] = weight

ann_synapse_save(N, synapse) ==
    LET from == N.neurons[N.synapses[synapse].from]
    IN ("layer-from" :> N.layers[from.layer].id)
         @@ ("neuron-from" :> from.id)
         @@ ("weight" :> valuedouble(N.synapses[synapse].weight))

ann_neuron_save(N, neuron) ==
    LET n == N.neurons[neuron]
        jneuron == ("neuron-id" :> n.id)
                     @@ ("firing-function" :>
                           IF n.fire_func \in {"sigmoid", "input", "bias"}
                           THEN n.fire_func ELSE "unknown")
    IN IF n.inputs = <<>> THEN jneuron
       ELSE jneuron @@ ("synapses" :>
                          [k \in 1..Len(n.inputs) |->
                             ann_synapse_save(N, n.inputs[k])])

ann_layer_save(N, layer) ==
    LET jlayer == ("layer-id" :> N.layers[layer].id)
        ns == NeuronList(N, layer)
    IN IF N.layers[layer].neuron_head = NULL THEN jlayer
       ELSE jlayer @@ ("neurons" :>
                         [k \in 1..Len(ns) |-> ann_neuron_save(N, ns[k])])

(* cJSON_AddStringToObject is given ann->name: the nets that are saved     *)
(* have been named.                                                        *)
ann_net_save(N) ==
    LET named == "ann-name" :> N.name.s
        jnet == IF ~N.description.null /\ Len(N.description.s) > 0
                THEN named @@ ("ann-description" :> N.description.s)
                ELSE named
        ls == LayerChain(N)
    IN IF N.layer_head = NULL THEN jnet
       ELSE jnet @@ ("layers" :>
                       [k \in 1..Len(ls) |-> ann_layer_save(N, ls[k])])

(* The document written for the nets; nothing is written for no net. *)
ann_save(nets) == [i \in 1..Len(nets) |-> ann_net_save(nets[i])]

(* The hash of ann_neuron_hash entries is a function from the key, the    *)
(* pair <<layer id, neuron id>> that sprintf renders as "%d,%d", to the    *)
(* neuron.                                                                 *)
ann_insert_neuron_hash(key, neuron, hash) ==
    IF key \in DOMAIN hash THEN [hash |-> hash, ret |-> FALSE]
    ELSE [hash |-> Put(hash, key, neuron), ret |-> TRUE]

(* ann_load_neuron that does not look at "firing-function". *)
ann_load_neuron_keeps_input(N, json_neuron, neuron, hash) ==
    IF "neuron-id" \notin DOMAIN json_neuron
    THEN [net |-> N, hash |-> hash, ret |-> FALSE]
    ELSE
      LET id == json_neuron["neuron-id"]
          h == ann_insert_neuron_hash(<<N.layers[N.neurons[neuron].layer].id, id>>,
                                      neuron, hash)
      IN [net |-> [N EXCEPT !.neurons[neuron].id = id,
                            !.neurons[neuron].fire_func = "input"],
          hash |-> h.hash, ret |-> h.ret]

ann_load_neuron(N, json_neuron, neuron, hash) ==
    IF "neuron-id" \notin DOMAIN json_neuron
    THEN [net |-> N, hash |-> hash, ret |-> FALSE]
    ELSE
      LET id == json_neuron["neuron-id"]
          fire_func ==
              IF "firing-function" \notin DOMAIN json_neuron THEN "input"
              ELSE IF json_neuron["firing-function"] = "sigmoid" THEN "sigmoid"
              ELSE IF json_neuron["firing-function"] = "bias" THEN "bias"
              ELSE "input"
          h == ann_insert_neuron_hash(<<N.layers[N.neurons[neuron].layer].id, id>>,
                                      neuron, hash)
      IN [net |-> [N EXCEPT !.neurons[neuron].id = id,
                            !.neurons[neuron].fire_func = fire_func],
          hash |-> h.hash, ret |-> h.ret]

RECURSIVE ann_load_neurons_from(_, _, _, _, _)
(* The loop of ann_load_layer over the neurons it added, from iteration i  *)
(* (counted from 1) at list position neuron.  What ann_load_neuron returns *)
(* is not looked at.                                                       *)
ann_load_neurons_from(N, json_neurons, i, neuron, hash) ==
    IF i > Len(json_neurons) THEN [net |-> N, hash |-> hash]
    ELSE With(ann_load_neuron(N, json_neurons[i], neuron, hash), LAMBDA r :
           ann_load_neurons_from(r.net, json_neurons, i + 1,
                                 r.net.neurons[neuron].next, r.hash))

(* ann_load_layer that leaves the layer the id ann_add_layer gave it. *)
ann_load_layer_keeps_id(N, json_layer, json_neurons, num_neurons, hash) ==
    With(ann_add_layer(N, TRUE), LAMBDA a :
      IF "layer-id" \notin DOMAIN json_layer
      THEN [net |-> a.net, hash |-> hash, ret |-> FALSE]
      ELSE IF num_neurons = 0
      THEN [net |-> a.net, hash |-> hash, ret |-> TRUE]
      ELSE
        With(ann_add_neurons(a.net, a.ret, num_neurons, "input", 0), LAMBDA n :
        With(ann_load_neurons_from(n.net, json_neurons, 1, n.ret, hash),
             LAMBDA r : [net |-> r.net, hash |-> r.hash, ret |-> TRUE])))

ann_load_layer(N, json_layer, json_neurons, num_neurons, hash) ==
    With(ann_add_layer(N, TRUE), LAMBDA a :
      IF "layer-id" \notin DOMAIN json_layer
      THEN [net |-> a.net, hash |-> hash, ret |-> FALSE]
      ELSE
        With([a.net EXCEPT
                !.layers[a.ret].id = json_layer["layer-id"],
                !.layer_ctr = IF json_layer["layer-id"] > @
                              THEN json_layer["layer-id"] + 1 ELSE @],
             LAMBDA N1 :
          IF num_neurons = 0 THEN [net |-> N1, hash |-> hash, ret |-> TRUE]
          ELSE
            With(ann_add_neurons(N1, a.ret, num_neurons, "input", 0), LAMBDA n :
            With(ann_load_neurons_from(n.net, json_neurons, 1, n.ret, hash),
                 LAMBDA r : [net |-> r.net, hash |-> r.hash, ret |-> TRUE]))))

(* The neurons array of a layer object, empty when it has none. *)
NeuronsOf(json_layer) ==
    IF "neurons" \in DOMAIN json_layer THEN json_layer["neurons"] ELSE <<>>

(* The synapse objects of the layers array in the order of the loops of    *)
(* ann_load_synapses, each with the key of the neuron object it is in.     *)
SynapseEntries(json) ==
    Flatten([i \in 1..Len(json) |->
      Flatten([j \in 1..Len(NeuronsOf(json[i])) |->
        LET json_neuron == NeuronsOf(json[i])[j]
        IN IF "synapses" \notin DOMAIN json_neuron THEN <<>>
           ELSE [k \in 1..Len(json_neuron["synapses"]) |->
                   [to |-> <<json[i]["layer-id"], json_neuron["neuron-id"]>>,
                    json_synapse |-> json_neuron["synapses"][k]]]])])

RECURSIVE ann_load_synapses_from(_, _, _, _)
(* The second pass from the k-th synapse object on.  The hash is emptied   *)
(* on the way out of the loops only.                                       *)
ann_load_synapses_from(N, entries, k, hash) ==
    IF k > Len(entries) THEN [net |-> N, hash |-> <<>>, ret |-> TRUE]
    ELSE
      LET json_synapse == entries[k].json_synapse
          from == <<json_synapse["layer-from"], json_synapse["neuron-from"]>>
      IN IF {"layer-from", "neuron-from", "weight"} \subseteq DOMAIN json_synapse
            /\ from \in DOMAIN hash
         THEN With(ann_add_synapse(N, hash[from], hash[entries[k].to],
                                   DoubleOf[json_synapse["weight"]], 0),
                   LAMBDA s : ann_load_synapses_from(s.net, entries, k + 1,
                                                     hash))
         ELSE [net |-> N, hash |-> hash, ret |-> FALSE]

(* ann_load_synapses for a loader of one pass: a source that is created    *)
(* after its target is not yet in the hash when the synapse is looked at.  *)
ann_load_synapses_in_one_pass(json, N, hash) ==
    With(SynapseEntries(json), LAMBDA entries :
      IF \E k \in 1..Len(entries) :
            LET json_synapse == entries[k].json_synapse
                from == <<json_synapse["layer-from"],
                          json_synapse["neuron-from"]>>
            IN from \in DOMAIN hash /\ hash[from] > hash[entries[k].to]
      THEN [net |-> N, hash |-> hash, ret |-> FALSE]
      ELSE ann_load_synapses_from(N, entries, 1, hash))

ann_load_synapses(json, N, hash) ==
    With(SynapseEntries(json), LAMBDA entries :
      ann_load_synapses_from(N, entries, 1, hash))

RECURSIVE ann_load_layers_from(_, _, _, _)
(* The first pass of ann_load_net from the i-th layer object on. *)
ann_load_layers_from(N, json, i, hash) ==
    IF i > Len(json) THEN [net |-> N, hash |-> hash, ret |-> TRUE]
    ELSE With(ann_load_layer(N, json[i], NeuronsOf(json[i]),
                             Len(NeuronsOf(json[i])), hash), LAMBDA r :
           IF r.ret THEN ann_load_layers_from(r.net, json, i + 1, r.hash)
           ELSE r)

(* What a loader of one net hands back: ann, the records of the net it     *)
(* created; freed, whether it destroyed that net and returns NULL; hash,   *)
(* the entries left in its hash.                                           *)
Loaded(N, hash) == [ann |-> N, freed |-> FALSE, hash |-> hash]
Destroyed(N, hash) == [ann |-> ann_destroy_net(N), freed |-> TRUE, hash |-> hash]

(* The net ann_load_net has before it looks for "layers". *)
ann_load_net_strings(json_ann) ==
    LET N0 == ann_create_net
        N1 == IF "ann-name" \in DOMAIN json_ann
              THEN ann_set_net_name(N0, json_ann["ann-name"]) ELSE N0
    IN IF "ann-description" \in DOMAIN json_ann
       THEN ann_set_net_description(N1, json_ann["ann-description"])
       ELSE N1

(* ann_load_net that returns NULL when the second pass fails and forgets   *)
(* the net.                                                                *)
ann_load_net_forgets_net(json_ann) ==
    IF "layers" \notin DOMAIN json_ann
    THEN Loaded(ann_load_net_strings(json_ann), <<>>)
    ELSE
      With(ann_load_layers_from(ann_load_net_strings(json_ann),
                                json_ann["layers"], 1, <<>>), LAMBDA p1 :
        IF ~p1.ret THEN Destroyed(p1.net, p1.hash)
        ELSE With(ann_load_synapses(json_ann["layers"], p1.net, p1.hash),
                  LAMBDA p2 : [ann |-> p2.net, freed |-> ~p2.ret,
                               hash |-> p2.hash]))

ann_load_net(json_ann) ==
    IF "layers" \notin DOMAIN json_ann
    THEN Loaded(ann_load_net_strings(json_ann), <<>>)
    ELSE
      With(ann_load_layers_from(ann_load_net_strings(json_ann),
                                json_ann["layers"], 1, <<>>), LAMBDA p1 :
        IF ~p1.ret THEN Destroyed(p1.net, p1.hash)
        ELSE With(ann_load_synapses(json_ann["layers"], p1.net, p1.hash),
                  LAMBDA p2 : [ann |-> IF p2.ret THEN p2.net
                                       ELSE ann_destroy_net(p2.net),
                               freed |-> ~p2.ret, hash |-> p2.hash]))

(* The failure handlers of ann_load and ann_load_nets_bin: the nets loaded *)
(* before the one that failed are destroyed.                               *)
DestroyAll(made) ==
    [j \in 1..Len(made) |->
       [made[j] EXCEPT !.ann = ann_destroy_net(@), !.freed = TRUE]]

RECURSIVE ann_load_from(_, _, _)
(* The loop of ann_load from the i-th net object on; made: what the calls  *)
(* of ann_load_net so far handed back.                                     *)
ann_load_from(root, i, made) ==
    IF i > Len(root)
    THEN [ret |-> TRUE, num_nets |-> Len(root), made |-> made]
    ELSE With(ann_load_net(root[i]), LAMBDA r :
           IF r.freed
           THEN [ret |-> FALSE, num_nets |-> 0,
                 made |-> Append(DestroyAll(made), r)]
           ELSE ann_load_from(root, i + 1, Append(made, r)))

(* ret: whether the array of nets is returned (FALSE: NULL).  A file of    *)
(* length 0 is not read.                                                   *)
ann_load(root) ==
    IF root = <<>> THEN [ret |-> FALSE, num_nets |-> 0, made |-> <<>>]
    ELSE ann_load_from(root, 1, <<>>)

---------------------------------------------------------------------------
(* io.c: the binary format.  The file is its sequence of bytes; an int is  *)
(* 4 bytes, least significant first, in two's complement.                  *)

int_bytes(i) ==
    LET v == IF i >= 0 THEN i ELSE i + 2147483647 + 1
    IN <<v % 256, (v \div 256) % 256, (v \div 65536) % 256,
         ((v \div 16777216) % 128) + (IF i >= 0 THEN 0 ELSE 128)>>

bytes_int(b) ==
    LET v == b[1] + 256 * b[2] + 65536 * b[3] + 16777216 * (b[4] % 128)
    IN IF b[4] < 128 THEN v ELSE v - 2147483647 - 1

(* The code written for the firing function of n.  The test for the input  *)
(* function looks at the neuron the list starts with.                      *)
fire_func_code(neuron, n) ==
    IF neuron.fire_func = "input" THEN 1
    ELSE IF n.fire_func = "bias" THEN 2
    ELSE IF n.fire_func = "sigmoid" THEN 3
    ELSE 0

ann_save_synapses_bin(N, synapses) ==
    Flatten([k \in 1..Len(synapses) |->
        LET s == N.synapses[synapses[k]]
            from == N.neurons[s.from]
            to == N.neurons[s.to]
        IN int_bytes(N.layers[from.layer].id) \o int_bytes(from.id)
             \o int_bytes(N.layers[to.layer].id) \o int_bytes(to.id)
             \o s.weight])

ann_save_neurons_bin(N, neuron) ==
    LET ns == Walk(N.neurons, neuron, Cardinality(DOMAIN N.neurons))
    IN Flatten([k \in 1..Len(ns) |->
          int_bytes(N.neurons[ns[k]].id)
            \o int_bytes(fire_func_code(N.neurons[neuron], N.neurons[ns[k]]))])

ann_save_layers_bin(N, layer) ==
    LET ls == Walk(N.layers, layer, Cardinality(DOMAIN N.layers))
    IN Flatten([k \in 1..Len(ls) |->
          int_bytes(N.layers[ls[k]].id)
            \o int_bytes(N.layers[ls[k]].num_neurons)])
       \o Flatten([k \in 1..Len(ls) |->
          ann_save_neurons_bin(N, N.layers[ls[k]].neuron_head)])

(* A string written with its length before it; a null pointer as length 0. *)
string_bytes(str) ==
    IF str.null THEN int_bytes(0) ELSE int_bytes(Len(str.s)) \o str.s

ann_save_net_bin(N) ==
    LET ls == LayerChain(N)
        ns == Flatten([k \in 1..Len(ls) |-> NeuronList(N, ls[k])])
    IN string_bytes(N.name) \o string_bytes(N.description)
         \o int_bytes(N.num_layers)
         \o ann_save_layers_bin(N, N.layer_head)
         \o Flatten([k \in 1..Len(ns) |->
               ann_save_synapses_bin(N, N.neurons[ns[k]].outputs)])

ann_save_nets_bin(nets) ==
    int_bytes(Len(nets))
      \o Flatten([i \in 1..Len(nets) |-> ann_save_net_bin(nets[i])])

(* fread of nmemb items of size bytes from the stream f, a record of the   *)
(* bytes of the file and the number read so far: it returns the number of  *)
(* complete items read and moves over what it read.                        *)
fread(f, size, nmemb) ==
    LET left == Len(f.bytes) - f.pos
        n == IF left \div size < nmemb THEN left \div size ELSE nmemb
        got == IF left < size * nmemb THEN left ELSE size * nmemb
    IN [ret |-> n, ptr |-> SubSeq(f.bytes, f.pos + 1, f.pos + n * size),
        f |-> [f EXCEPT !.pos = @ + got]]

fopen(bytes) == [bytes |-> bytes, pos |-> 0]

RECURSIVE ann_load_synapses_bin(_, _, _)
(* A read that does not fill the 24 bytes of a struct syn_rec ends the     *)
(* loop with the end-of-file indicator set.                                *)
ann_load_synapses_bin(f, N, hash) ==
    With(fread(f, 24, 1), LAMBDA r :
      LET from == <<bytes_int(SubSeq(r.ptr, 1, 4)),
                    bytes_int(SubSeq(r.ptr, 5, 8))>>
          to == <<bytes_int(SubSeq(r.ptr, 9, 12)),
                  bytes_int(SubSeq(r.ptr, 13, 16))>>
      IN IF r.ret = 0 THEN [net |-> N, f |-> r.f, ret |-> TRUE]
         ELSE IF from \notin DOMAIN hash \/ to \notin DOMAIN hash
         THEN [net |-> N, f |-> r.f, ret |-> FALSE]
         ELSE With(ann_add_synapse(N, hash[from], hash[to],
                                   SubSeq(r.ptr, 17, 24), 0),
                   LAMBDA s : ann_load_synapses_bin(r.f, s.net, hash)))

(* ann_add_neurons returns NULL when it is asked for no neuron. *)
ann_load_layer_bin(f, N) ==
    With(fread(f, 4, 1), LAMBDA i :
      IF i.ret = 0 THEN [net |-> N, f |-> i.f, ret |-> FALSE]
      ELSE
        With(fread(i.f, 4, 1), LAMBDA j :
          IF j.ret = 0 THEN [net |-> N, f |-> j.f, ret |-> FALSE]
          ELSE
            With(ann_add_layer(N, TRUE), LAMBDA l :
            With(ann_add_neurons(
                     [l.net EXCEPT !.layers[l.ret].id = bytes_int(i.ptr)],
                     l.ret, bytes_int(j.ptr), "NULL", 0),
                 LAMBDA n : [net |-> n.net, f |-> j.f,
                             ret |-> n.ret # NULL]))))

RECURSIVE ann_load_layer_headers(_, _, _, _)
(* The first loop of ann_load_layers_bin from iteration i on. *)
ann_load_layer_headers(f, N, num_layers, i) ==
    IF i >= num_layers THEN [net |-> N, f |-> f, ret |-> TRUE]
    ELSE With(ann_load_layer_bin(f, N), LAMBDA r :
           IF r.ret THEN ann_load_layer_headers(r.f, r.net, num_layers, i + 1)
           ELSE r)

(* The code read for a firing function. *)
fire_func_of(j) ==
    IF j = 1 THEN "input" ELSE IF j = 2 THEN "bias"
    ELSE IF j = 3 THEN "sigmoid" ELSE "NULL"

RECURSIVE ann_load_neuron_records(_, _, _, _, _)
(* The second loop of ann_load_layers_bin over the neurons ns of the net,  *)
(* from the k-th one on.                                                   *)
ann_load_neuron_records(f, N, hash, ns, k) ==
    IF k > Len(ns) THEN [net |-> N, f |-> f, hash |-> hash, ret |-> TRUE]
    ELSE
      With(fread(f, 4, 1), LAMBDA i :
        IF i.ret = 0
        THEN [net |-> N, f |-> i.f, hash |-> hash, ret |-> FALSE]
        ELSE
          With(fread(i.f, 4, 1), LAMBDA j :
            IF j.ret = 0
            THEN [net |-> N, f |-> j.f, hash |-> hash, ret |-> FALSE]
            ELSE
              With([N EXCEPT
                      !.neurons[ns[k]].id = bytes_int(i.ptr),
                      !.neurons[ns[k]].fire_func = fire_func_of(bytes_int(j.ptr))],
                   LAMBDA N1 :
              With(ann_insert_neuron_hash(
                       <<N.layers[N.neurons[ns[k]].layer].id, bytes_int(i.ptr)>>,
                       ns[k], hash),
                   LAMBDA h :
                IF ~h.ret
                THEN [net |-> N1, f |-> j.f, hash |-> hash, ret |-> FALSE]
                ELSE ann_load_neuron_records(j.f, N1, h.hash, ns, k + 1)))))

(* The neurons of N, layer by layer in chain order, in list order. *)
NeuronsInOrder(N) ==
    With(LayerChain(N), LAMBDA ls :
      Flatten([k \in 1..Len(ls) |-> NeuronList(N, ls[k])]))

ann_load_layers_bin(f, N, hash) ==
    With(fread(f, 4, 1), LAMBDA num_layers :
      IF num_layers.ret = 0
      THEN [net |-> N, f |-> num_layers.f, hash |-> hash, ret |-> FALSE]
      ELSE
        With(ann_load_layer_headers(num_layers.f, N,
                                    bytes_int(num_layers.ptr), 0), LAMBDA hs :
          IF ~hs.ret
          THEN [net |-> hs.net, f |-> hs.f, hash |-> hash, ret |-> FALSE]
          ELSE ann_load_neuron_records(hs.f, hs.net, hash,
                                       NeuronsInOrder(hs.net), 1)))

(* The reads of a length and of the string of that length in              *)
(* ann_load_net_bin: ret, whether they succeed; set, whether a string was  *)
(* read (the length is not 0).  No buffer is had for a negative length.    *)
fread_string(f) ==
    With(fread(f, 4, 1), LAMBDA i :
      IF i.ret = 0 THEN [ret |-> FALSE, set |-> FALSE, s |-> <<>>, f |-> i.f]
      ELSE IF bytes_int(i.ptr) = 0
      THEN [ret |-> TRUE, set |-> FALSE, s |-> <<>>, f |-> i.f]
      ELSE IF bytes_int(i.ptr) < 0
      THEN [ret |-> FALSE, set |-> FALSE, s |-> <<>>, f |-> i.f]
      ELSE With(fread(i.f, 1, bytes_int(i.ptr)), LAMBDA str :
             [ret |-> str.ret = bytes_int(i.ptr), set |-> TRUE,
              s |-> str.ptr, f |-> str.f]))

(* What the call hands back, as for ann_load_net, and the stream. *)
ann_load_net_bin(f) ==
    With(fread_string(f), LAMBDA name :
      IF ~name.ret
      THEN [made |-> Destroyed(ann_create_net, <<>>), f |-> name.f]
      ELSE
        With(IF name.set THEN ann_set_net_name(ann_create_net, name.s)
             ELSE ann_create_net, LAMBDA N1 :
        With(fread_string(name.f), LAMBDA desc :
          IF ~desc.ret THEN [made |-> Destroyed(N1, <<>>), f |-> desc.f]
          ELSE
            With(ann_load_layers_bin(
                     desc.f,
                     IF desc.set THEN ann_set_net_description(N1, desc.s)
                     ELSE N1,
                     <<>>), LAMBDA ls :
              IF ~ls.ret
              THEN [made |-> Destroyed(ls.net, ls.hash), f |-> ls.f]
              ELSE
                With(ann_load_synapses_bin(ls.f, ls.net, ls.hash), LAMBDA ss :
                  [made |-> IF ss.ret THEN Loaded(ss.net, <<>>)
                            ELSE Destroyed(ss.net, ls.hash),
                   f |-> ss.f])))))

RECURSIVE ann_load_nets_bin_from(_, _, _, _)
(* The loop of ann_load_nets_bin from iteration i on. *)
ann_load_nets_bin_from(f, num_nets, i, made) ==
    IF i >= num_nets
    THEN [ret |-> TRUE, num_nets |-> num_nets, made |-> made]
    ELSE With(ann_load_net_bin(f), LAMBDA r :
           IF r.made.freed
           THEN [ret |-> FALSE, num_nets |-> i,
                 made |-> Append(DestroyAll(made), r.made)]
           ELSE ann_load_nets_bin_from(r.f, num_nets, i + 1,
                                       Append(made, r.made)))

ann_load_nets_bin(bytes) ==
    With(fread(fopen(bytes), 4, 1), LAMBDA num_nets :
      IF num_nets.ret = 0
      THEN [ret |-> FALSE, num_nets |-> 0, made |-> <<>>]
      ELSE ann_load_nets_bin_from(num_nets.f, bytes_int(num_nets.ptr), 0,
                                  <<>>))

---------------------------------------------------------------------------
(* The records of a file, read as the formats lay them out: for every net  *)
(* the sequence of its layer records, a layer record being the layer id    *)
(* and the sequence of the neuron ids of its neuron records; and the       *)
(* source keys of its synapse records, in file order.                      *)

TextLayers(jnet) == IF "layers" \in DOMAIN jnet THEN jnet["layers"] ELSE <<>>

TextRecords(jnet) ==
    [j \in 1..Len(TextLayers(jnet)) |->
       [id |-> TextLayers(jnet)[j]["layer-id"],
        neurons |-> [k \in 1..Len(NeuronsOf(TextLayers(jnet)[j])) |->
                       NeuronsOf(TextLayers(jnet)[j])[k]["neuron-id"]]]]

TextSources(jnet) ==
    LET entries == SynapseEntries(TextLayers(jnet))
    IN [k \in 1..Len(entries) |->
          <<entries[k].json_synapse["layer-from"],
            entries[k].json_synapse["neuron-from"]>>]

IntAt(bytes, off) == bytes_int(SubSeq(bytes, off + 1, off + 4))

RECURSIVE BinNeuronsBefore(_, _, _)
(* The neuron records of the layers before the j-th one; base: the offset  *)
(* of the first layer header.                                              *)
BinNeuronsBefore(bytes, base, j) ==
    IF j <= 1 THEN 0
    ELSE IntAt(bytes, base + 8 * (j - 2) + 4)
           + BinNeuronsBefore(bytes, base, j - 1)

(* The offsets in a file of one net: of the header of layer j, of the k-th *)
(* neuron record of layer j, and of the first synapse record.              *)
BinLayersAt(bytes) == 16 + IntAt(bytes, 4) + IntAt(bytes, 8 + IntAt(bytes, 4))
BinNumLayers(bytes) == IntAt(bytes, BinLayersAt(bytes) - 4)
BinLayerAt(bytes, j) == BinLayersAt(bytes) + 8 * (j - 1)
BinNumNeurons(bytes, j) == IntAt(bytes, BinLayerAt(bytes, j) + 4)
BinNeuronAt(bytes, j, k) ==
    BinLayersAt(bytes) + 8 * BinNumLayers(bytes)
      + 8 * (BinNeuronsBefore(bytes, BinLayersAt(bytes), j) + k - 1)
BinSynapsesAt(bytes) == BinNeuronAt(bytes, BinNumLayers(bytes) + 1, 1)

BinRecords(bytes) ==
    [j \in 1..BinNumLayers(bytes) |->
       [id |-> IntAt(bytes, BinLayerAt(bytes, j)),
        neurons |-> [k \in 1..BinNumNeurons(bytes, j) |->
                       IntAt(bytes, BinNeuronAt(bytes, j, k))]]]

BinSources(bytes) ==
    [k \in 1..((Len(bytes) - BinSynapsesAt(bytes)) \div 24) |->
       <<IntAt(bytes, BinSynapsesAt(bytes) + 24 * (k - 1)),
         IntAt(bytes, BinSynapsesAt(bytes) + 24 * (k - 1) + 4)>>]

(* The binary layout has no mark for the end of the synapse records of a   *)
(* net: the records of a binary file are those of its first net.           *)
Records(f) ==
    IF f.fmt = "text" THEN [i \in 1..Len(f.doc) |-> TextRecords(f.doc[i])]
    ELSE << BinRecords(f.bytes) >>

Sources(f) ==
    IF f.fmt = "text" THEN [i \in 1..Len(f.doc) |-> TextSources(f.doc[i])]
    ELSE << BinSources(f.bytes) >>

(* The keys the neuron records of a net carry. *)
Keys(records) ==
    UNION {{<<records[j].id, records[j].neurons[k]>> :
               k \in 1..Len(records[j].neurons)} : j \in 1..Len(records)}

---------------------------------------------------------------------------
(* State and operations *)

NoFile == [fmt |-> "none", doc |-> <<>>, bytes |-> <<>>, edited |-> FALSE]
NoRes == [fmt |-> "none"]

(* ann: the net under construction; anns: the nets handed to a save;       *)
(* file: the file written; res: what the load of the file returned;        *)
(* op: the last call of the model API and what it returned.                *)
Init ==
    /\ ann = ann_create_net
    /\ anns = <<>>
    /\ file = NoFile
    /\ res = NoRes
    /\ op = [name |-> "ann_create_net", ret |-> 1]

(* A call that runs into undefined behaviour ends the process. *)
Crash == [name |-> "crash", ret |-> NULL]
Running == op.name # "crash"

(* The records of the nets built so far. *)
RECURSIVE SumOver(_, _)
SumOver(nets, heap) ==
    IF nets = <<>> THEN 0
    ELSE Cardinality(DOMAIN Head(nets)[heap]) + SumOver(Tail(nets), heap)
Used(heap) == SumOver(anns \o <<ann>>, heap)
FreeLayers(bound) == bound - Used("layers")
FreeNeurons(bound) == bound - Used("neurons")
FreeSynapses(bound) == bound - Used("synapses")

(* log: whether op records the call. *)
Log(log, call) == IF log THEN call ELSE op

AddLayerWithin(bound, fails, log) ==
    /\ Running
    /\ FreeLayers(bound) > 0
    /\ \E ok \in {TRUE} \cup {~f : f \in fails} :
         LET r == ann_add_layer(ann, ok)
         IN /\ ann' = r.net
            /\ op' = Log(log, [name |-> "ann_add_layer", ret |-> r.ret])
    /\ UNCHANGED <<anns, file, res>>

PrependLayer ==
    /\ FreeLayers(MaxChain) > 0
    /\ \E ok \in BOOLEAN :
         LET r == ann_prepend_layer(ann, ok)
         IN /\ ann' = r.net
            /\ op' = [name |-> "ann_prepend_layer", ret |-> r.ret]
    /\ UNCHANGED <<anns, file, res>>

InsertAfterLayer ==
    /\ FreeLayers(MaxChain) > 0
    /\ \E layer \in DOMAIN ann.layers, ok \in BOOLEAN :
         LET r == ann_insert_after_layer(ann, layer, ok)
         IN /\ ann' = r.net
            /\ op' = [name |-> "ann_insert_after_layer", ret |-> r.ret]
    /\ UNCHANGED <<anns, file, res>>

(* fails = {TRUE}: allocations may fail; fails = {}: they succeed. *)
AddNeuronsOf(bound, funcs, fails, log) ==
    /\ Running
    /\ \E layer \in DOMAIN ann.layers, n \in 0..FreeNeurons(bound),
          fire_func \in funcs :
         \E fail_at \in {0} \cup {k \in 1..n : fails # {}} :
           LET r == ann_add_neurons(ann, layer, n, fire_func, fail_at)
           IN /\ fails = {} => r.ret # NULL
              /\ ann' = r.net
              /\ op' = IF r.crash THEN Crash
                       ELSE Log(log, [name |-> "ann_add_neurons",
                                      ret |-> r.ret])
    /\ UNCHANGED <<anns, file, res>>

AddSynapseOf(bound, weights, fails, log) ==
    /\ Running
    /\ FreeSynapses(bound) > 0
    /\ \E from \in DOMAIN ann.neurons, to \in DOMAIN ann.neurons,
          weight \in weights, fail \in {0} \cup {k \in 1..3 : fails # {}} :
         LET r == ann_add_synapse(ann, from, to, weight, fail)
         IN /\ ann' = r.net
            /\ op' = Log(log, [name |-> "ann_add_synapse", ret |-> r.ret])
    /\ UNCHANGED <<anns, file, res>>

ConnectLayersOf(weights) ==
    /\ Running
    /\ \E from \in DOMAIN ann.layers, to \in DOMAIN ann.layers :
         LET n == Len(LayerPairs(ann, from, to))
         IN /\ n <= FreeSynapses(MaxSynapses)
            /\ \E ws \in [1..n -> weights], fail_at \in 0..n :
                 LET r == ann_connect_layers(ann, from, to, ws, fail_at)
                 IN /\ ann' = r.net
                    /\ op' = [name |-> "ann_connect_layers",
                              ret |-> IF r.ret THEN 1 ELSE 0]
    /\ UNCHANGED <<anns, file, res>>

DestroySynapse ==
    /\ Running
    /\ \E synapse \in DOMAIN ann.synapses :
         LET r == ann_destroy_synapse(ann, synapse)
         IN /\ ann' = r.net
            /\ op' = IF r.crash THEN Crash
                     ELSE [name |-> "ann_destroy_synapse", ret |-> synapse]
    /\ UNCHANGED <<anns, file, res>>

---------------------------------------------------------------------------
(* A net under ann_add_layer, ann_add_neurons, ann_add_synapse,            *)
(* ann_connect_layers and ann_destroy_synapse, any of whose allocations    *)
(* may fail.  The firing function and the weight play no part in the       *)
(* structure: one of each is drawn.                                        *)
BuildFuncs == {"sigmoid"}
BuildWeights == {CHOOSE w \in Weights : TRUE}

AddLayer == AddLayerWithin(Cardinality(BuildLayers), {TRUE}, TRUE)
AddNeurons == AddNeuronsOf(MaxNeurons, BuildFuncs, {TRUE}, TRUE)
AddSynapse == AddSynapseOf(MaxSynapses, BuildWeights, {TRUE}, TRUE)
ConnectLayers == ConnectLayersOf(BuildWeights)

NextBuild ==
    AddLayer \/ AddNeurons \/ AddSynapse \/ ConnectLayers \/ DestroySynapse

SpecBuild == Init /\ [][NextBuild]_vars

---------------------------------------------------------------------------
(* The layer chain under ann_add_layer, ann_prepend_layer and              *)
(* ann_insert_after_layer.                                                 *)
ChainAddLayer == AddLayerWithin(MaxChain, {TRUE}, TRUE)

NextLayers == ChainAddLayer \/ PrependLayer \/ InsertAfterLayer

SpecLayers == Init /\ [][NextLayers]_vars

---------------------------------------------------------------------------
(* A net that is built without failures, one of whose synapses is then     *)
(* taken out of one of its two lists with ann_remove_synapse_from_neuron,  *)
(* and that is then checked.                                               *)
Intact == op.name \notin {"ann_remove_synapse_from_neuron", "ann_check_net"}

BreakSynapse ==
    /\ Running /\ Intact
    /\ \E synapse \in DOMAIN ann.synapses, side \in {"outputs", "inputs"} :
         LET s == ann.synapses[synapse]
             n == IF side = "outputs" THEN s.from ELSE s.to
             r == ann_remove_synapse_from_neuron(ann.neurons[n][side], synapse)
         IN /\ r.found
            /\ ann' = [ann EXCEPT !.neurons[n][side] = r.list,
                                  !.list_nodes = @ - 1]
            /\ op' = [name |-> "ann_remove_synapse_from_neuron",
                      ret |-> synapse]
    /\ UNCHANGED <<anns, file, res>>

CheckNet ==
    /\ Running
    /\ op.name = "ann_remove_synapse_from_neuron"
    /\ \E r \in ann_check_net(ann) :
         op' = IF r = "crash" THEN Crash
               ELSE [name |-> "ann_check_net",
                     ret |-> IF r = "true" THEN 1 ELSE 0]
    /\ UNCHANGED <<ann, anns, file, res>>

BreakAddLayer == Intact /\ AddLayerWithin(Cardinality(BuildLayers), {}, FALSE)
BreakAddNeurons == Intact /\ AddNeuronsOf(MaxNeurons, BuildFuncs, {}, FALSE)
BreakAddSynapse == Intact /\ AddSynapseOf(MaxSynapses, BuildWeights, {}, FALSE)

NextBreak ==
    BreakAddLayer \/ BreakAddNeurons \/ BreakAddSynapse \/ BreakSynapse
        \/ CheckNet

SpecBreak == Init /\ [][NextBreak]_vars

---------------------------------------------------------------------------
(* Nets that are named, built without failures, saved to one file in one   *)
(* of the two formats and loaded from it.  Between the save and the load   *)
(* another program may give one layer record or one neuron record of a     *)
(* file of one net another id.                                             *)
EditIds == {7}

(* The neurons and the synapses of the nets of a file. *)
FileNeurons == {1, 2}
FileSynapses == {1, 2}

Building == file.fmt = "none" /\ ~ann.name.null

SetNetName ==
    /\ file.fmt = "none" /\ ann.name.null
    /\ ann' = ann_set_net_name(ann, NameXOR)
    /\ UNCHANGED <<anns, file, res, op>>

CodecAddLayer ==
    Building /\ AddLayerWithin(Cardinality(BuildLayers), {}, FALSE)
CodecAddNeurons ==
    Building /\ AddNeuronsOf(Cardinality(FileNeurons), FireFuncs, {}, FALSE)
CodecAddSynapse ==
    Building /\ AddSynapseOf(Cardinality(FileSynapses), Weights, {}, FALSE)

(* The net is complete and the next one of the array is begun. *)
NextNet ==
    /\ Building
    /\ Len(anns) + 1 < MaxNets
    /\ anns' = Append(anns, ann)
    /\ ann' = ann_create_net
    /\ UNCHANGED <<file, res, op>>

SaveText ==
    /\ Building
    /\ anns' = Append(anns, ann)
    /\ ann' = ann_create_net
    /\ file' = [NoFile EXCEPT !.fmt = "text", !.doc = ann_save(anns')]
    /\ UNCHANGED <<res, op>>

SaveBin ==
    /\ Building
    /\ anns' = Append(anns, ann)
    /\ ann' = ann_create_net
    /\ file' = [NoFile EXCEPT !.fmt = "bin", !.bytes = ann_save_nets_bin(anns')]
    /\ UNCHANGED <<res, op>>

SetInt(bytes, off, v) ==
    [x \in 1..Len(bytes) |->
       IF x \in (off + 1)..(off + 4) THEN int_bytes(v)[x - off] ELSE bytes[x]]

EditLayerIdOf(ids) ==
    /\ file.fmt # "none" /\ ~file.edited /\ res.fmt = "none"
    /\ Len(anns) = 1
    /\ \E id \in ids, i \in 1..Len(Records(file)) :
         \E j \in 1..Len(Records(file)[i]) :
           file' = IF file.fmt = "text"
                   THEN [file EXCEPT !.doc[i]["layers"][j]["layer-id"] = id,
                                     !.edited = TRUE]
                   ELSE [file EXCEPT
                           !.bytes = SetInt(@, BinLayerAt(@, j), id),
                           !.edited = TRUE]
    /\ UNCHANGED <<ann, anns, res, op>>

EditLayerId == EditLayerIdOf(EditIds)

EditNeuronIdOf(ids) ==
    /\ file.fmt # "none" /\ ~file.edited /\ res.fmt = "none"
    /\ Len(anns) = 1
    /\ \E id \in ids, i \in 1..Len(Records(file)) :
         \E j \in 1..Len(Records(file)[i]) :
           \E k \in 1..Len(Records(file)[i][j].neurons) :
             file' = IF file.fmt = "text"
                     THEN [file EXCEPT
                             !.doc[i]["layers"][j]["neurons"][k]["neuron-id"] = id,
                             !.edited = TRUE]
                     ELSE [file EXCEPT
                             !.bytes = SetInt(@, BinNeuronAt(@, j, k), id),
                             !.edited = TRUE]
    /\ UNCHANGED <<ann, anns, res, op>>

EditNeuronId == EditNeuronIdOf(EditIds)

LoadText ==
    /\ file.fmt = "text" /\ res.fmt = "none"
    /\ LET r == ann_load(file.doc)
       IN res' = [fmt |-> "text", ret |-> r.ret, num_nets |-> r.num_nets,
                  made |-> r.made]
    /\ UNCHANGED <<ann, anns, file, op>>

LoadBin ==
    /\ file.fmt = "bin" /\ res.fmt = "none"
    /\ LET r == ann_load_nets_bin(file.bytes)
       IN res' = [fmt |-> "bin", ret |-> r.ret, num_nets |-> r.num_nets,
                  made |-> r.made]
    /\ UNCHANGED <<ann, anns, file, op>>

NextCodec ==
    SetNetName \/ CodecAddLayer \/ CodecAddNeurons \/ CodecAddSynapse
        \/ NextNet \/ SaveText \/ SaveBin \/ EditLayerId \/ EditNeuronId
        \/ LoadText \/ LoadBin

SpecCodec == Init /\ [][NextCodec]_vars

---------------------------------------------------------------------------
(* One net that is named, built without failures, saved in one of the two  *)
(* formats and loaded.  Before the load another program may give one layer *)
(* record or one neuron record an id that ann_add_layer and ann_add_neuron *)
(* give as well, or cut the last bytes off a binary file that ends with a  *)
(* synapse record.  After the load the program adds a layer to the net     *)
(* loaded, or a neuron to one of its layers.                               *)
ImportIds == {0, 1, 2}

(* The numbers of bytes cut off: sizeof(struct syn_rec) is 24. *)
CutBytes == {1, 12, 23}

ImportEditLayerId == EditLayerIdOf(ImportIds)
ImportEditNeuronId == EditNeuronIdOf(ImportIds)

Truncate ==
    /\ file.fmt = "bin" /\ ~file.edited /\ res.fmt = "none"
    /\ Len(file.bytes) - BinSynapsesAt(file.bytes) >= 24
    /\ \E n \in CutBytes :
         file' = [file EXCEPT !.bytes = SubSeq(@, 1, Len(@) - n),
                              !.edited = TRUE]
    /\ UNCHANGED <<ann, anns, res, op>>

(* The net the load handed back is not yet added to. *)
Imported == res.fmt # "none" /\ res.ret /\ op.name = "ann_create_net"

ImportedAddLayer ==
    /\ Imported
    /\ LET r == ann_add_layer(res.made[1].ann, TRUE)
       IN /\ ann' = r.net
          /\ op' = [name |-> "ann_add_layer", ret |-> r.ret]
    /\ UNCHANGED <<anns, file, res>>

ImportedAddNeuron ==
    /\ Imported
    /\ \E layer \in DOMAIN res.made[1].ann.layers, fire_func \in BuildFuncs :
         LET r == ann_add_neuron(res.made[1].ann, layer, fire_func, TRUE)
         IN /\ ann' = r.net
            /\ op' = [name |-> "ann_add_neuron", ret |-> r.ret]
    /\ UNCHANGED <<anns, file, res>>

NextImport ==
    SetNetName \/ CodecAddLayer \/ CodecAddNeurons \/ CodecAddSynapse
        \/ SaveText \/ SaveBin \/ ImportEditLayerId \/ ImportEditNeuronId
        \/ Truncate \/ LoadText \/ LoadBin
        \/ ImportedAddLayer \/ ImportedAddNeuron

SpecImport == Init /\ [][NextImport]_vars

---------------------------------------------------------------------------
(* One net that is named and built without failures, of neurons of the     *)
(* three firing functions and of none (ann_add_neurons with a null         *)
(* fire_func, as ann_load_layer_bin calls it), and that is presented       *)
(* patterns, as built or after it went through a binary file.              *)
ProcessFuncs == FireFuncs \cup {"NULL"}

(* The input arrays: of no double, and of 2.0, of 1.0 and 2.0, and of 1.0, *)
(* 2.0 and 1.0.                                                            *)
Patterns ==
    {<<>>, <<DoubleOf[2]>>, <<DoubleOf[1], DoubleOf[2]>>,
     <<DoubleOf[1], DoubleOf[2], DoubleOf[1]>>}

(* The patterns presented to one net. *)
MaxPatterns == 2

(* The neurons of the net. *)
ProcessNeurons == {1, 2}

(* Nothing was presented yet. *)
Fresh == op.name = "ann_create_net"

ProcessSetNetName == Fresh /\ SetNetName
ProcessAddLayer ==
    Fresh /\ Building /\ AddLayerWithin(Cardinality(BuildLayers), {}, FALSE)
ProcessAddNeurons ==
    Fresh /\ Building
      /\ AddNeuronsOf(Cardinality(ProcessNeurons), ProcessFuncs, {}, FALSE)
ProcessAddSynapse ==
    Fresh /\ Building
      /\ AddSynapseOf(Cardinality(FileSynapses), BuildWeights, {}, FALSE)
ProcessSaveBin == Fresh /\ SaveBin

(* ann = ann_arr[0] *)
Adopt ==
    /\ Fresh /\ res.fmt # "none" /\ res.ret
    /\ ann' = res.made[1].ann
    /\ op' = [name |-> "ann_load_nets_bin", ret |-> 1]
    /\ UNCHANGED <<anns, file, res>>

Presented == IF op.name = "ann_process_pattern" THEN op.calls ELSE 0

ProcessPatternOf(patterns) ==
    /\ Running
    /\ Presented < MaxPatterns
    /\ \E inputs \in patterns :
         LET r == ann_process_pattern(ann, inputs)
         IN /\ ann' = r.net
            /\ op' = IF r.crash THEN Crash
                     ELSE [name |-> "ann_process_pattern", ret |-> r.ret,
                           calls |-> Presented + 1]
    /\ UNCHANGED <<anns, file, res>>

ProcessPattern ==
    /\ ~ann.name.null
    /\ file.fmt = "none" \/ ~Fresh
    /\ ProcessPatternOf(Patterns)

NextProcess ==
    ProcessSetNetName \/ ProcessAddLayer \/ ProcessAddNeurons
        \/ ProcessAddSynapse \/ ProcessSaveBin \/ LoadBin \/ Adopt
        \/ ProcessPattern

SpecProcess == Init /\ [][NextProcess]_vars

---------------------------------------------------------------------------
(* The test program: a net made by ann_create_feed_forward_net from an     *)
(* array of sizes, which then has the weights of XOR set on the synapses   *)
(* the program names by position, and is presented the four patterns.      *)
FeedLayers == {2, 3}
FeedSizes == {0, 1, 2}

(* The calls ann_set_synapse_weight(ann_get_synapse(ann_get_neuron_by_pos( *)
(* ann, a, b), ann_get_neuron_by_pos(ann, c, d)), w) of the program, as    *)
(* <<a, b, c, d, hundredths of w>>.                                        *)
TestWeights ==
    << <<1, 0, 2, 0, -282>>, <<1, 0, 2, 1, -274>>, <<1, 0, 3, 0, -286>>,
       <<0, 0, 2, 0, 483>>, <<0, 0, 2, 1, -463>>, <<0, 1, 2, 0, -483>>,
       <<0, 1, 2, 1, 460>>, <<2, 0, 3, 0, 573>>, <<2, 1, 3, 0, 583>> >>

(* double patterns[][2] = {{0, 0}, {0, 1}, {1, 0}, {1, 1}} *)
TestPatterns ==
    {<<LiteralOf[0], LiteralOf[0]>>, <<LiteralOf[0], DoubleOf[1]>>,
     <<DoubleOf[1], LiteralOf[0]>>, <<DoubleOf[1], DoubleOf[1]>>}

RECURSIVE SetWeightsFrom(_, _)
(* The calls of TestWeights from the k-th one on. *)
SetWeightsFrom(N, k) ==
    IF k > Len(TestWeights) THEN [net |-> N, crash |-> FALSE]
    ELSE
      LET c == TestWeights[k]
          s == ann_get_synapse(N, ann_get_neuron_by_pos(N, c[1], c[2]),
                               ann_get_neuron_by_pos(N, c[3], c[4]))
      IN IF s.crash THEN [net |-> N, crash |-> TRUE]
         ELSE SetWeightsFrom(ann_set_synapse_weight(N, s.ret, LiteralOf[c[5]]),
                             k + 1)

CreateFeedForwardNet ==
    /\ Fresh
    /\ \E n \in FeedLayers, weight \in Weights :
         \E layers \in [1..n -> FeedSizes] :
           LET r == ann_create_feed_forward_net(layers, weight)
           IN /\ ann' = r.net
              /\ op' = [name |-> "ann_create_feed_forward_net",
                        ret |-> IF r.ret THEN 1 ELSE 0, layers |-> layers]
    /\ UNCHANGED <<anns, file, res>>

SetTestWeights ==
    /\ op.name = "ann_create_feed_forward_net" /\ op.ret = 1
    /\ LET r == SetWeightsFrom(ann, 1)
       IN /\ ann' = r.net
          /\ op' = IF r.crash THEN Crash
                   ELSE [name |-> "ann_set_synapse_weight", ret |-> 1]
    /\ UNCHANGED <<anns, file, res>>

TestPattern ==
    /\ ~Fresh /\ op.ret # 0
    /\ ProcessPatternOf(TestPatterns)

NextFeedForward == CreateFeedForwardNet \/ SetTestWeights \/ TestPattern

SpecFeedForward == Init /\ [][NextFeedForward]_vars

---------------------------------------------------------------------------
(* A net that is built without failures and then walked once with          *)
(* ann_traverse_net: any of the four visitors may be absent, and a visitor *)
(* may return false on one of the objects it is called with.               *)
VisitorNames ==
    <<"layer_func", "neuron_func", "in_synapse_func", "out_synapse_func">>

(* The calls a walk of N with all four visitors can make. *)
Visits(N) ==
    {<<"layer_func", l>> : l \in DOMAIN N.layers}
      \cup {<<"neuron_func", n>> : n \in DOMAIN N.neurons}
      \cup {<<"in_synapse_func", s>> : s \in DOMAIN N.synapses}
      \cup {<<"out_synapse_func", s>> : s \in DOMAIN N.synapses}

TraverseAddLayer ==
    Fresh /\ AddLayerWithin(Cardinality(BuildLayers), {}, FALSE)
TraverseAddNeurons ==
    Fresh /\ AddNeuronsOf(Cardinality(FileNeurons), BuildFuncs, {}, FALSE)
TraverseAddSynapse ==
    Fresh /\ AddSynapseOf(Cardinality(FileSynapses), BuildWeights, {}, FALSE)

TraverseNet ==
    /\ Fresh
    /\ \E given \in [1..4 -> BOOLEAN],
          fails \in {{}} \cup {{c} : c \in Visits(ann)} :
         LET r == ann_traverse_net_until(ann, given[1], given[2], given[3],
                                         given[4], fails)
         IN op' = [name |-> "ann_traverse_net",
                   ret |-> IF r.ret THEN 1 ELSE 0, calls |-> r.calls,
                   given |-> given, fails |-> fails]
    /\ UNCHANGED <<ann, anns, file, res>>

NextTraverse ==
    TraverseAddLayer \/ TraverseAddNeurons \/ TraverseAddSynapse
        \/ TraverseNet

SpecTraverse == Init /\ [][NextTraverse]_vars

---------------------------------------------------------------------------
(* The layer chain under ann_add_layer and ann_create_layer, which links   *)
(* the new layer to whichever two layers it is given, checked with         *)
(* ann_check_net.  Allocations succeed.                                    *)
Checked == op.name = "ann_check_net"

(* The walk of ann_check_net ends: following next from layer_head reaches  *)
(* NULL.                                                                   *)
ChainEnds(N) ==
    LET chain == LayerChain(N)
    IN IF chain = <<>> THEN N.layer_head = NULL
       ELSE /\ Cardinality(Range(chain)) = Len(chain)
            /\ N.layers[chain[Len(chain)]].next = NULL

LinkAddLayer == ~Checked /\ AddLayerWithin(MaxChain, {}, FALSE)

CreateLayer ==
    /\ ~Checked
    /\ FreeLayers(MaxChain) > 0
    /\ \E prev \in DOMAIN ann.layers \cup {NULL},
          next \in DOMAIN ann.layers \cup {NULL} :
         /\ ann' = ann_create_layer(ann, prev, next, TRUE).net
         /\ ChainEnds(ann')
    /\ UNCHANGED <<anns, file, res, op>>

LinkCheckNet ==
    /\ ~Checked
    /\ \E r \in ann_check_net(ann) :
         op' = IF r = "crash" THEN Crash
               ELSE [name |-> "ann_check_net",
                     ret |-> IF r = "true" THEN 1 ELSE 0]
    /\ UNCHANGED <<ann, anns, file, res>>

NextLink == LinkAddLayer \/ CreateLayer \/ LinkCheckNet

SpecLink == Init /\ [][NextLink]_vars

---------------------------------------------------------------------------
(* A net that is built without failures with ann_add_layer,                *)
(* ann_prepend_layer, ann_insert_after_layer, ann_add_neurons and          *)
(* ann_add_synapse and then taken apart with ann_destroy_layer and         *)
(* ann_destroy_neuron, called with live records, and ann_destroy_net.  The *)
(* program makes no call after one that went through a freed record, and   *)
(* none on the net after ann_destroy_net.                                  *)
DestroyLayers == {1, 2, 3}

DestroyCalls == {"ann_destroy_layer", "ann_destroy_neuron", "ann_destroy_net"}

(* What a destroying call leaves in op: net, the net before the call. *)
Destroyed_by(name, ret, D) ==
    [name |-> name, ret |-> ret, frees |-> D.frees, uaf |-> D.uaf, net |-> ann]

TakingApart ==
    \/ Fresh
    \/ op.name \in DestroyCalls \ {"ann_destroy_net"} /\ ~op.uaf

DestroyAddLayer ==
    Fresh /\ AddLayerWithin(Cardinality(DestroyLayers), {}, FALSE)

DestroyPrependLayer ==
    /\ Fresh
    /\ FreeLayers(Cardinality(DestroyLayers)) > 0
    /\ ann' = ann_prepend_layer(ann, TRUE).net
    /\ UNCHANGED <<anns, file, res, op>>

DestroyInsertAfterLayer ==
    /\ Fresh
    /\ FreeLayers(Cardinality(DestroyLayers)) > 0
    /\ \E layer \in DOMAIN ann.layers :
         ann' = ann_insert_after_layer(ann, layer, TRUE).net
    /\ UNCHANGED <<anns, file, res, op>>

DestroyAddNeurons ==
    Fresh /\ AddNeuronsOf(Cardinality(FileNeurons), BuildFuncs, {}, FALSE)

DestroyAddSynapse ==
    Fresh /\ AddSynapseOf(Cardinality(FileSynapses), BuildWeights, {}, FALSE)

DestroyLayer ==
    /\ TakingApart
    /\ \E layer \in DOMAIN ann.layers :
         LET D == ann_destroy_layer(Destroying(ann), layer)
         IN /\ ann' = D.net
            /\ op' = Destroyed_by("ann_destroy_layer", layer, D)
    /\ UNCHANGED <<anns, file, res>>

DestroyNeuron ==
    /\ TakingApart
    /\ \E neuron \in DOMAIN ann.neurons :
         LET D == ann_destroy_neuron(Destroying(ann), neuron)
         IN /\ ann' = D.net
            /\ op' = Destroyed_by("ann_destroy_neuron", neuron, D)
    /\ UNCHANGED <<anns, file, res>>

DestroyNet ==
    /\ TakingApart
    /\ LET D == ann_destroy_net_frees(ann)
       IN /\ ann' = D.net
          /\ op' = Destroyed_by("ann_destroy_net", NULL, D)
    /\ UNCHANGED <<anns, file, res>>

NextDestroy ==
    DestroyAddLayer \/ DestroyPrependLayer \/ DestroyInsertAfterLayer
        \/ DestroyAddNeurons \/ DestroyAddSynapse
        \/ DestroyLayer \/ DestroyNeuron \/ DestroyNet

SpecDestroy == Init /\ [][NextDestroy]_vars

---------------------------------------------------------------------------
(* Properties *)

Count(list, x) == Cardinality({i \in 1..Len(list) : list[i] = x})

(* Some synapse of N is in exactly one of its source's output list and its *)
(* target's input list.                                                    *)
OneSided(N) ==
    \E s \in DOMAIN N.synapses :
        (s \in Range(N.neurons[N.synapses[s].from].outputs))
            # (s \in Range(N.neurons[N.synapses[s].to].inputs))

(* C5: ann_check_net returns false for a net one of whose synapses was     *)
(* removed from exactly one of from.outputs and to.inputs.                 *)
C5_CheckFindsOneSidedSynapse ==
    (OneSided(ann) /\ op.name = "ann_check_net") => op.ret = 0

(* C7: an ann_add_synapse one of whose three allocations fails returns     *)
(* NULL, leaves from.outputs and to.inputs as they were, and has freed     *)
(* every record it allocated: the synapse heap and the number of live list *)
(* nodes are as before the call.                                           *)
C7_AddSynapseRollsBack ==
    Running =>
      \A from \in DOMAIN ann.neurons, to \in DOMAIN ann.neurons,
         weight \in Weights, fail \in 1..3 :
        LET r == ann_add_synapse(ann, from, to, weight, fail)
        IN /\ r.ret = NULL
           /\ r.net.neurons[from].outputs = ann.neurons[from].outputs
           /\ r.net.neurons[to].inputs = ann.neurons[to].inputs
           /\ r.net.synapses = ann.synapses
           /\ r.net.list_nodes = ann.list_nodes

(* A failed ann_add_synapse on a net that has synapses. *)
C7_Witness ==
    /\ op.name = "ann_add_synapse" /\ op.ret = NULL
    /\ DOMAIN ann.synapses # {}

(* C8: every live synapse is exactly once in its source's output list,     *)
(* exactly once in its target's input list and in no other list, and       *)
(* ann_check_net returns true.                                             *)
C8_DualMembership ==
    Running =>
      /\ \A s \in DOMAIN ann.synapses, n \in DOMAIN ann.neurons :
           /\ Count(ann.neurons[n].outputs, s)
                = (IF n = ann.synapses[s].from THEN 1 ELSE 0)
           /\ Count(ann.neurons[n].inputs, s)
                = (IF n = ann.synapses[s].to THEN 1 ELSE 0)
      /\ ann_check_net(ann) = {"true"}

(* A synapse was destroyed in a net of two layers, and another synapse     *)
(* lives on.                                                               *)
C8_Witness ==
    /\ op.name = "ann_destroy_synapse"
    /\ DOMAIN ann.synapses # {}
    /\ Cardinality(DOMAIN ann.layers) = 2

(* C9: layer_head has no predecessor, layer_last has no successor,         *)
(* layer_last is the last layer of the chain from layer_head, and the      *)
(* prev and next links of the layers of the chain agree.                   *)
C9_ChainLinked ==
    LET chain == LayerChain(ann)
        L == ann.layers
    IN /\ ann.layer_head # NULL => L[ann.layer_head].prev = NULL
       /\ ann.layer_last # NULL => L[ann.layer_last].next = NULL
       /\ IF chain = <<>> THEN ann.layer_last = NULL
          ELSE ann.layer_last = chain[Len(chain)]
       /\ \A k \in 1..Len(chain) :
            /\ L[chain[k]].next # NULL => L[L[chain[k]].next].prev = chain[k]
            /\ L[chain[k]].prev # NULL => L[L[chain[k]].prev].next = chain[k]

(* C10: no two layers of the net have the same id. *)
C10_LayerIdsUnique ==
    \A a \in Range(LayerChain(ann)), b \in Range(LayerChain(ann)) :
        ann.layers[a].id = ann.layers[b].id => a = b

---------------------------------------------------------------------------
(* Properties of the codecs *)

(* The layers of N in chain order, each with its id and the ids of its     *)
(* neurons in list order.                                                  *)
Ids(N) ==
    LET ls == LayerChain(N)
    IN [j \in 1..Len(ls) |->
          [id |-> N.layers[ls[j]].id,
           neurons |-> [k \in 1..Len(NeuronList(N, ls[j])) |->
                          N.neurons[NeuronList(N, ls[j])[k]].id]]]

(* The firing functions of the neurons of N, by layer and list position. *)
Tags(N) ==
    LET ls == LayerChain(N)
    IN [j \in 1..Len(ls) |->
          [k \in 1..Len(NeuronList(N, ls[j])) |->
             N.neurons[NeuronList(N, ls[j])[k]].fire_func]]

(* The layer and list position of neuron n. *)
Pos(N, n) ==
    LET ls == LayerChain(N)
    IN CHOOSE p \in UNION {{<<j, k>> : k \in 1..Len(NeuronList(N, ls[j]))} :
                              j \in 1..Len(ls)} :
          NeuronList(N, ls[p[1]])[p[2]] = n

(* The synapses of N as (source neuron, target neuron, weight). *)
SynapseSet(N) ==
    {<<Pos(N, N.synapses[s].from), Pos(N, N.synapses[s].to),
       N.synapses[s].weight>> : s \in DOMAIN N.synapses}

(* The i-th net handed back by the load is the i-th net saved: the same    *)
(* layers and neurons, the same synapses, and ann_check_net returns true.  *)
SameNet(i) ==
    /\ i <= Len(res.made) /\ ~res.made[i].freed
    /\ ann_check_net(res.made[i].ann) = {"true"}
    /\ Ids(res.made[i].ann) = Ids(anns[i])
    /\ SynapseSet(res.made[i].ann) = SynapseSet(anns[i])
    /\ Cardinality(DOMAIN res.made[i].ann.synapses)
         = Cardinality(DOMAIN anns[i].synapses)

(* C1: a net saved with ann_save and loaded with ann_load comes back as    *)
(* one net that passes ann_check_net and has the same layers in the same   *)
(* order, the same neurons per layer with the same firing functions, and   *)
(* the same set of (source, target, weight) synapses.                      *)
C1_TextRoundTrip ==
    (res.fmt = "text" /\ ~file.edited /\ Len(anns) = 1) =>
        /\ res.ret /\ res.num_nets = 1
        /\ SameNet(1)
        /\ Tags(res.made[1].ann) = Tags(anns[1])

(* A net with two synapses of different weights and neurons of different   *)
(* firing functions went through the text format.                          *)
C1_Witness ==
    /\ res.fmt = "text" /\ ~file.edited /\ Len(anns) = 1
    /\ Cardinality({anns[1].synapses[s].weight : s \in DOMAIN anns[1].synapses}) = 2
    /\ Cardinality({anns[1].neurons[n].fire_func : n \in DOMAIN anns[1].neurons}) = 2

(* C2: a net, also one that has a layer of no neurons, saved with          *)
(* ann_save_nets_bin and loaded with ann_load_nets_bin comes back as one   *)
(* net that passes ann_check_net and has the same layers, the same neurons *)
(* per layer and the same set of synapses.                                 *)
C2_BinRoundTrip ==
    (res.fmt = "bin" /\ ~file.edited /\ Len(anns) = 1) =>
        /\ res.ret /\ res.num_nets = 1
        /\ SameNet(1)

(* C3: after a load that succeeds, the layers and neurons of every net     *)
(* loaded have, position by position, the ids of the layer records and     *)
(* neuron records of the file.                                             *)
C3_IdsAsSerialized ==
    (res.fmt # "none" /\ res.ret) =>
        \A i \in 1..Len(res.made) : Ids(res.made[i].ann) = Records(file)[i]

(* A file in which a layer record was given an id that ann_add_layer does  *)
(* not give was loaded, with a synapse to a neuron of that layer.          *)
C3_Witness ==
    /\ res.fmt # "none" /\ res.ret /\ file.edited
    /\ DOMAIN res.made[1].ann.synapses # {}
    /\ \E j \in 1..Len(Records(file)[1]) :
         /\ Records(file)[1][j].id \in EditIds
         /\ Records(file)[1][j].neurons # <<>>

(* Some synapse record of the file names a source that no neuron record of *)
(* its net carries.                                                        *)
DanglingSource(f) ==
    \E i \in 1..Len(Sources(f)) :
        \E k \in 1..Len(Sources(f)[i]) :
            Sources(f)[i][k] \notin Keys(Records(f)[i])

(* C4: the load of a file with such a synapse record returns NULL, and     *)
(* every net created during the call has been destroyed with all its       *)
(* records.                                                                *)
C4_DanglingSourceFails ==
    (res.fmt # "none" /\ DanglingSource(file)) =>
        /\ ~res.ret
        /\ \A i \in 1..Len(res.made) :
             res.made[i].freed /\ Allocated(res.made[i].ann) = 0

(* The load of a text file failed at its second synapse record, after the  *)
(* first one was connected.                                                *)
C4_Witness ==
    /\ res.fmt = "text" /\ ~res.ret
    /\ Len(Sources(file)[1]) = 2
    /\ Sources(file)[1][1] \in Keys(Records(file)[1])
    /\ Sources(file)[1][2] \notin Keys(Records(file)[1])

(* Every layer of every net saved has a neuron. *)
NoEmptyLayer ==
    \A i \in 1..Len(anns) : \A l \in DOMAIN anns[i].layers :
        anns[i].layers[l].neuron_head # NULL

(* C6: N nets saved to one file, in either format, are loaded as exactly N *)
(* nets, the i-th one loaded being the i-th one saved.                     *)
C6_ManyNetsRoundTrip ==
    (res.fmt # "none" /\ ~file.edited /\ NoEmptyLayer) =>
        /\ res.ret /\ res.num_nets = Len(anns)
        /\ \A i \in 1..Len(anns) : SameNet(i)

(* The text half of C6. *)
TextManyNetsRoundTrip == res.fmt = "text" => C6_ManyNetsRoundTrip

(* The ids of the layers of N, and of the neurons of its layer l. *)
LayerIds(N) == {N.layers[l].id : l \in DOMAIN N.layers}
NeuronIds(N, l) == {N.neurons[n].id : n \in {m \in DOMAIN N.neurons :
                                               N.neurons[m].layer = l}}

(* C11: a layer added with ann_add_layer to a net a load handed back has   *)
(* an id that no loaded layer has, and a neuron added with ann_add_neuron  *)
(* to a loaded layer has an id that no loaded neuron of that layer has.    *)
C11_AddedIdsAreNew ==
    /\ (res.fmt # "none" /\ op.name = "ann_add_layer") =>
           ann.layers[op.ret].id \notin LayerIds(res.made[1].ann)
    /\ (res.fmt # "none" /\ op.name = "ann_add_neuron") =>
           ann.neurons[op.ret].id
               \notin NeuronIds(res.made[1].ann, ann.neurons[op.ret].layer)

(* Two neuron records of one net of the file carry the same key. *)
DuplicateKey(f) ==
    \E i \in 1..Len(Records(f)) :
        LET at == UNION {{<<j, k>> : k \in 1..Len(Records(f)[i][j].neurons)} :
                            j \in 1..Len(Records(f)[i])}
            key(p) == <<Records(f)[i][p[1]].id, Records(f)[i][p[1]].neurons[p[2]]>>
        IN \E p \in at, q \in at : p # q /\ key(p) = key(q)

(* C12: ann_load of a text file in which two neuron records of one net     *)
(* carry the same (layer id, neuron id) key returns NULL and no net.       *)
C12_TextDuplicateKeyFails ==
    (res.fmt = "text" /\ DuplicateKey(file)) =>
        ~res.ret /\ res.num_nets = 0

(* The binary file of one net ends inside a synapse record. *)
EndsInsideRecord(f) ==
    (Len(f.bytes) - BinSynapsesAt(f.bytes)) % 24 \in 1..23

(* C13: ann_load_nets_bin of a file that ends between 1 and 23 bytes after *)
(* its last complete synapse record returns NULL.                          *)
C13_TruncatedRecordFails ==
    (res.fmt = "bin" /\ EndsInsideRecord(file)) => ~res.ret

(* The neurons of the layers of N after the first. *)
LaterNeurons(N) ==
    {n \in DOMAIN N.neurons : N.neurons[n].layer # N.layer_head}

(* C14: ann_process_pattern on a net with a layer runs to its end, and a   *)
(* neuron of a later layer that has none of the three firing functions has *)
(* the value it had.                                                       *)
C14_UnrecognizedLeftAlone ==
    \A inputs \in Patterns :
        (Running /\ ann.layer_head # NULL) =>
            LET r == ann_process_pattern(ann, inputs)
            IN /\ ~r.crash
               /\ \A n \in LaterNeurons(ann) :
                      ann.neurons[n].fire_func = "NULL" =>
                          r.net.neurons[n].value = ann.neurons[n].value

(* C15: ann_process_pattern with k inputs on a net whose first layer has   *)
(* m neurons gives the i-th neuron of the first layer, in list order, the  *)
(* i-th input for i <= min(k, m), leaves the later ones their values, does *)
(* with k > m inputs what it does with the first m, and calls the firing   *)
(* function of no neuron of the first layer.                               *)
C15_InputsCopied ==
    \A inputs \in Patterns :
        (Running /\ ann.layer_head # NULL) =>
            LET r == ann_process_pattern(ann, inputs)
                first == NeuronList(ann, ann.layer_head)
            IN /\ \A i \in 1..Len(first) :
                      r.net.neurons[first[i]].value =
                          IF i <= Len(inputs) THEN Exact(number(inputs[i]))
                          ELSE ann.neurons[first[i]].value
               /\ Len(inputs) > Len(first) =>
                      r = ann_process_pattern(ann, SubSeq(inputs, 1, Len(first)))
               /\ \A k \in 1..Len(r.fired) : r.fired[k] \notin Range(first)

(* A first layer of two neurons, the second a bias neuron, was presented   *)
(* two inputs and then one: the second neuron has the second input of the  *)
(* first pattern.                                                          *)
C15_Witness ==
    /\ op.name = "ann_process_pattern" /\ op.calls = 2
    /\ ann.layer_head # NULL
    /\ LET first == NeuronList(ann, ann.layer_head)
       IN /\ Len(first) = 2
          /\ ann.neurons[first[1]].value = Exact(2 * Unit)
          /\ ann.neurons[first[2]].value = Exact(2 * Unit)
          /\ ann.neurons[first[2]].fire_func = "bias"

(* C16: ann_process_pattern returns the last layer of the chain of a net   *)
(* that has a layer, also when it has one layer only.                      *)
C16_ReturnsLastLayer ==
    op.name = "ann_process_pattern" =>
        /\ op.ret # NULL
        /\ op.ret = LayerChain(ann)[Len(LayerChain(ann))]

(* The neurons the input synapses of neuron n come from, in list order. *)
SourcesOf(N, n) ==
    [k \in 1..Len(N.neurons[n].inputs) |-> N.synapses[N.neurons[n].inputs[k]].from]

(* N is the feed forward net of the sizes layers: an input layer, a bias   *)
(* layer of one neuron and a sigmoid layer per further size, with ids 0,   *)
(* 1, ... in chain order; every sigmoid neuron has one input synapse from  *)
(* the bias neuron, one from each neuron of the sigmoid layer before its   *)
(* own, or of the input layer when there is none, and no other.            *)
FeedForward(N, layers) ==
    LET ls == LayerChain(N)
        of(j) == NeuronList(N, ls[j])
        funcs(j) == {N.neurons[n].fire_func : n \in Range(of(j))}
    IN /\ Len(ls) = Len(layers) + 1
       /\ \A j \in 1..Len(ls) : N.layers[ls[j]].id = j - 1
       /\ Len(of(1)) = layers[1] /\ funcs(1) = {"input"}
       /\ Len(of(2)) = 1 /\ funcs(2) = {"bias"}
       /\ \A i \in 2..Len(layers) :
            /\ Len(of(i + 1)) = layers[i] /\ funcs(i + 1) = {"sigmoid"}
            /\ \A n \in Range(of(i + 1)) :
                 LET before == IF i = 2 THEN of(1) ELSE of(i)
                 IN /\ Len(SourcesOf(N, n)) = 1 + Len(before)
                    /\ Range(SourcesOf(N, n)) = Range(of(2)) \cup Range(before)

(* C17: ann_create_feed_forward_net of two or more sizes, each of them at  *)
(* least 1, returns the feed forward net of these sizes, on which          *)
(* ann_check_net returns true.                                             *)
C17_FeedForwardBuilt ==
    (op.name = "ann_create_feed_forward_net"
       /\ \A i \in DOMAIN op.layers : op.layers[i] >= 1) =>
        /\ op.ret = 1
        /\ FeedForward(ann, op.layers)
        /\ ann_check_net(ann) = {"true"}

(* The net of the sizes 2, 2, 2 was made: its last layer is connected to   *)
(* a sigmoid layer and to the bias layer, not to the input layer.          *)
C17_Witness ==
    /\ op.name = "ann_create_feed_forward_net" /\ op.ret = 1
    /\ op.layers = <<2, 2, 2>>
    /\ Cardinality(DOMAIN ann.synapses) = 12

(* C17 as stated, for every array of two or more sizes. *)
C17_AnySizes ==
    op.name = "ann_create_feed_forward_net" =>
        /\ op.ret = 1
        /\ FeedForward(ann, op.layers)
        /\ ann_check_net(ann) = {"true"}

(* "Untitled" *)
Untitled == <<85, 110, 116, 105, 116, 108, 101, 100>>

(* C18: the net ann_create_net returned has the name "Untitled" as long as *)
(* ann_set_net_name was not called on it, and the description "" as long   *)
(* as ann_set_net_description was not: no call of the latter is made here, *)
(* and the former is called with "XOR" only.                               *)
C18_DefaultNameAndDescription ==
    /\ ann.name # Str(NameXOR) => ann.name = Str(Untitled)
    /\ ann.description = Str(<<>>)

(* N is the net of the sizes 2, 2, 1 with the weights of the test program. *)
IsXor(N) ==
    /\ FeedForward(N, <<2, 2, 1>>)
    /\ \A k \in 1..Len(TestWeights) :
         LET c == TestWeights[k]
             s == ann_get_synapse(N, ann_get_neuron_by_pos(N, c[1], c[2]),
                                  ann_get_neuron_by_pos(N, c[3], c[4]))
         IN ~s.crash /\ N.synapses[s.ret].weight = LiteralOf[c[5]]

(* C19: after ann_process_pattern on that net the value of its one output  *)
(* neuron is within 0.01 of 0.1 when the two inputs are equal, and of 0.9  *)
(* when they differ.                                                       *)
C19_XorOutputs ==
    (op.name = "ann_process_pattern" /\ IsXor(ann)) =>
        LET a == ann.neurons[ann_get_neuron_by_pos(ann, 0, 0)].value
            b == ann.neurons[ann_get_neuron_by_pos(ann, 0, 1)].value
            out == ann.neurons[ann_get_neuron_by_pos(ann, 3, 0)].value
            want == IF a = b THEN Unit \div 10 ELSE 9 * (Unit \div 10)
        IN /\ {a, b} \subseteq {Exact(0), Exact(Unit)}
           /\ want - Unit \div 100 <= out.lo
           /\ out.hi <= want + Unit \div 100

(* The net was presented (1, 1) and then (0, 1). *)
C19_Witness ==
    /\ op.name = "ann_process_pattern" /\ op.calls = 2 /\ IsXor(ann)
    /\ ann.neurons[ann_get_neuron_by_pos(ann, 0, 0)].value = Exact(0)
    /\ ann.neurons[ann_get_neuron_by_pos(ann, 0, 1)].value = Exact(Unit)
    /\ ann.neurons[ann_get_neuron_by_pos(ann, 3, 0)].value.lo > Unit \div 2

(* Where a call stands in the walk: the position of the layer in the       *)
(* chain, that of the neuron in the list of the layer (0 for the call of   *)
(* the layer visitor), then 0 for the neuron visitor, 1 for an input       *)
(* synapse and 2 for an output synapse, and the position of the synapse in *)
(* that list of the neuron.                                                *)
Place(N, c) ==
    IF c[1] = "layer_func" THEN <<IndexOf(LayerChain(N), c[2]), 0, 0, 0>>
    ELSE IF c[1] = "neuron_func" THEN Pos(N, c[2]) \o <<0, 0>>
    ELSE IF c[1] = "in_synapse_func"
    THEN Pos(N, N.synapses[c[2]].to)
           \o <<1, IndexOf(N.neurons[N.synapses[c[2]].to].inputs, c[2])>>
    ELSE Pos(N, N.synapses[c[2]].from)
           \o <<2, IndexOf(N.neurons[N.synapses[c[2]].from].outputs, c[2])>>

Before(p, q) ==
    \E i \in 1..4 : p[i] < q[i] /\ \A j \in 1..(i - 1) : p[j] = q[j]

(* C20: the calls ann_traverse_net makes are those of the visitors given,  *)
(* each where it stands in the walk: layers in chain order, after the call *)
(* for a layer, neuron by neuron in list order, the call for the neuron,   *)
(* those for its input synapses and those for its output synapses in list  *)
(* order.  The walk makes no call after the first one that returns false   *)
(* and then returns false; when none does it makes them all and returns    *)
(* true.                                                                   *)
C20_WalkOrder ==
    op.name = "ann_traverse_net" =>
        LET all == {c \in Visits(ann) :
                       \E v \in 1..4 : op.given[v] /\ c[1] = VisitorNames[v]}
            rank(c) == 1 + Cardinality({d \in all :
                                          Before(Place(ann, d), Place(ann, c))})
        IN /\ \A i \in 1..Len(op.calls) :
                  op.calls[i] \in all /\ rank(op.calls[i]) = i
           /\ \A i \in 1..(Len(op.calls) - 1) : op.calls[i] \notin op.fails
           /\ IF all \cap op.fails = {}
              THEN Len(op.calls) = Cardinality(all) /\ op.ret = 1
              ELSE /\ op.calls # <<>>
                   /\ op.calls[Len(op.calls)] \in op.fails
                   /\ op.ret = 0

(* A walk with all four visitors of a net of two layers, in which a neuron *)
(* has an input synapse and an output synapse, ended at the call for a     *)
(* neuron of the second layer before the last call it would have made.     *)
C20_Witness ==
    /\ op.name = "ann_traverse_net" /\ op.ret = 0
    /\ \A v \in 1..4 : op.given[v]
    /\ Len(LayerChain(ann)) = 2
    /\ \E n \in DOMAIN ann.neurons :
         ann.neurons[n].inputs # <<>> /\ ann.neurons[n].outputs # <<>>
    /\ \E n \in DOMAIN ann.neurons :
         /\ ann.neurons[n].layer = ann.layer_last
         /\ op.fails = {<<"neuron_func", n>>}
    /\ Len(op.calls) < Cardinality(Visits(ann))

(* Some layer of the chain of N is not the predecessor of its successor or *)
(* not the successor of its predecessor.                                   *)
Asymmetric(N) ==
    \E L \in Range(LayerChain(N)) :
        \/ /\ N.layers[L].next # NULL
           /\ N.layers[N.layers[L].next].prev # L
        \/ /\ N.layers[L].prev # NULL
           /\ N.layers[N.layers[L].prev].next # L

(* C21: ann_check_net returns false for every net one of whose layers,     *)
(* reached from layer_head, has a successor whose prev is not that layer   *)
(* or a predecessor whose next is not that layer.                          *)
C21_CheckFindsBrokenLink ==
    (Checked /\ Asymmetric(ann)) => op.ret = 0

(* Place p comes after place q in the serialized form: a later layer, or a *)
(* later neuron of the same layer.                                         *)
Later(p, q) == p[1] > q[1] \/ (p[1] = q[1] /\ p[2] > q[2])

(* The synapses of N whose source comes after their target. *)
LaterSourced(N) ==
    {s \in DOMAIN N.synapses :
        Later(Pos(N, N.synapses[s].from), Pos(N, N.synapses[s].to))}

C23_HashEmptied ==
    res.fmt # "none" =>
        \A i \in 1..Len(res.made) : DOMAIN res.made[i].hash = {}

(* C24: after ann_save_nets_bin and ann_load_nets_bin every neuron has the *)
(* firing function it had when the net was saved, also in a layer whose    *)
(* neurons have different firing functions.                                *)
C24_BinKeepsFiringFunctions ==
    (res.fmt = "bin" /\ ~file.edited /\ Len(anns) = 1 /\ res.ret) =>
        Tags(res.made[1].ann) = Tags(anns[1])

(* C25: an ann_add_neurons(layer, n, ...) whose allocation fails at its    *)
(* i-th neuron, 0 < i < n, returns NULL without a read through an invalid  *)
(* pointer, and the neuron list, num_neurons and neuron_ctr of the layer   *)
(* and the neuron heap are as before the call.                             *)
C25_AddNeuronsRollsBack ==
    Running =>
      \A layer \in DOMAIN ann.layers, n \in 2..3 :
        \A i \in 1..(n - 1), fire_func \in FireFuncs :
          LET r == ann_add_neurons(ann, layer, n, fire_func, i + 1)
          IN /\ ~r.crash
             /\ r.ret = NULL
             /\ r.net.layers[layer] = ann.layers[layer]
             /\ r.net.neurons = ann.neurons

(* Every reference of N is NULL or to a live record. *)
Live(N) ==
    /\ {N.layer_head, N.layer_last} \subseteq DOMAIN N.layers \cup {NULL}
    /\ \A l \in DOMAIN N.layers :
          /\ {N.layers[l].next, N.layers[l].prev}
                 \subseteq DOMAIN N.layers \cup {NULL}
          /\ N.layers[l].neuron_head \in DOMAIN N.neurons \cup {NULL}
    /\ \A n \in DOMAIN N.neurons :
          /\ N.neurons[n].next \in DOMAIN N.neurons \cup {NULL}
          /\ N.neurons[n].layer \in DOMAIN N.layers
          /\ Range(N.neurons[n].inputs) \cup Range(N.neurons[n].outputs)
                 \subseteq DOMAIN N.synapses
    /\ \A s \in DOMAIN N.synapses :
          {N.synapses[s].from, N.synapses[s].to} \subseteq DOMAIN N.neurons

(* Every synapse of N is once in the output list of its source, once in    *)
(* the input list of its target and in no other list.                      *)
DualMembership(N) ==
    \A s \in DOMAIN N.synapses, n \in DOMAIN N.neurons :
        /\ Count(N.neurons[n].outputs, s)
               = IF n = N.synapses[s].from THEN 1 ELSE 0
        /\ Count(N.neurons[n].inputs, s)
               = IF n = N.synapses[s].to THEN 1 ELSE 0

(* The layers of N are those of its chain, and its neurons those of the    *)
(* lists of these layers.                                                  *)
Owned(N) ==
    /\ Range(LayerChain(N)) = DOMAIN N.layers
    /\ UNION {Range(NeuronList(N, l)) : l \in DOMAIN N.layers}
           = DOMAIN N.neurons

(* The layers, neurons, synapses and list nodes of N. *)
RecordsOf(N) ==
    {<<"layers", l, "", 0>> : l \in DOMAIN N.layers}
      \cup {<<"neurons", n, "", 0>> : n \in DOMAIN N.neurons}
      \cup {<<"synapses", s, "", 0>> : s \in DOMAIN N.synapses}
      \cup UNION {{<<"node", n, side, k>> :
                      k \in 1..Len(N.neurons[n][side])} :
                  n \in DOMAIN N.neurons, side \in {"inputs", "outputs"}}

(* C26: ann_destroy_net on a net of live records that satisfies the dual   *)
(* membership of synapses, whose synapses connect neurons of the net,      *)
(* frees each layer, neuron, synapse and list node of the net exactly once *)
(* and goes through no record that was freed before.                       *)
C26_DestroyNetFreesOnce ==
    (/\ op.name = "ann_destroy_net"
     /\ Live(op.net) /\ DualMembership(op.net) /\ Owned(op.net)) =>
        /\ ~op.uaf
        /\ Range(op.frees) = RecordsOf(op.net)
        /\ Len(op.frees) = Cardinality(RecordsOf(op.net))
        /\ Allocated(ann) = 0
        /\ ann = ann_destroy_net(op.net)

(* A net of more than one layer was destroyed that had a synapse to a      *)
(* neuron of its first layer from a neuron of another layer, freed before  *)
(* the output list it is in, and a synapse from a neuron of its first      *)
(* layer.                                                                  *)
C26_Witness ==
    /\ op.name = "ann_destroy_net"
    /\ Live(op.net) /\ DualMembership(op.net) /\ Owned(op.net)
    /\ \E s \in DOMAIN op.net.synapses, t \in DOMAIN op.net.synapses :
         /\ op.net.neurons[op.net.synapses[s].to].layer = op.net.layer_head
         /\ op.net.neurons[op.net.synapses[s].from].layer # op.net.layer_head
         /\ op.net.neurons[op.net.synapses[t].from].layer = op.net.layer_head

(* C27: after any calls of ann_add_layer, ann_prepend_layer,               *)
(* ann_insert_after_layer and ann_destroy_layer, num_layers, the count     *)
(* that ann_save_net_bin writes, is the number of layers of the chain from *)
(* layer_head, the number of layer headers that ann_save_layers_bin        *)
(* writes.                                                                 *)
C27_NumLayersCounts ==
    (/\ Fresh \/ (op.name = "ann_destroy_layer" /\ ~op.uaf)
     /\ ann.layer_head \in DOMAIN ann.layers \cup {NULL}) =>
        ann.num_layers = Len(LayerChain(ann))

(* layer_head and layer_last of N are the first and the last layer of its  *)
(* live layers, or NULL when it has none.                                  *)
EndsOfChain(N) ==
    IF DOMAIN N.layers = {} THEN N.layer_head = NULL /\ N.layer_last = NULL
    ELSE /\ {N.layer_head, N.layer_last} \subseteq DOMAIN N.layers
         /\ N.layers[N.layer_head].prev = NULL
         /\ N.layers[N.layer_last].next = NULL

(* C28: after ann_destroy_layer on a layer of a net whose layer_head and   *)
(* layer_last were the ends of its chain, the first and the last layer     *)
(* included, layer_head and layer_last are live layers that are the ends   *)
(* of the remaining chain, or both NULL when no layer remains, and an      *)
(* ann_destroy_net that follows goes through no freed layer.               *)
C28_DestroyLayerKeepsEnds ==
    (/\ op.name = "ann_destroy_layer"
     /\ Live(op.net) /\ EndsOfChain(op.net)) =>
        /\ EndsOfChain(ann)
        /\ ~ann_destroy_net_frees(ann).uaf

(* C29: after ann_destroy_neuron(n) on a net of live records with dual     *)
(* membership, the synapses whose target was n are in no output list: the  *)
(* output list of every remaining neuron holds live synapses only.         *)
C29_DestroyNeuronUnlinksInputs ==
    (/\ op.name = "ann_destroy_neuron"
     /\ Live(op.net) /\ DualMembership(op.net)) =>
        \A m \in DOMAIN ann.neurons :
            Range(ann.neurons[m].outputs) \subseteq DOMAIN ann.synapses

(* The input list of neuron n of N as (source neuron, weight) entries, in  *)
(* list order.                                                             *)
InputEntries(N, n) ==
    [k \in 1..Len(N.neurons[n].inputs) |->
       <<Pos(N, N.synapses[N.neurons[n].inputs[k]].from),
         N.synapses[N.neurons[n].inputs[k]].weight>>]

(* C30: after ann_save and ann_load, or ann_save_nets_bin and              *)
(* ann_load_nets_bin, the input list of each neuron holds the same         *)
(* (source neuron, weight) entries in the same list order as before the    *)
(* save.                                                                   *)
C30_InputOrderKept ==
    (res.fmt # "none" /\ ~file.edited /\ Len(anns) = 1 /\ res.ret) =>
        \A n \in DOMAIN anns[1].neurons :
            \E m \in DOMAIN res.made[1].ann.neurons :
                /\ Pos(res.made[1].ann, m) = Pos(anns[1], n)
                /\ InputEntries(res.made[1].ann, m) = InputEntries(anns[1], n)

(* The binary half of C30. *)
BinInputOrderKept == res.fmt = "bin" => C30_InputOrderKept

====
